---------------------------- MODULE Spec2Model ----------------------------
(***************************************************************************)
(* A model of the raft engine (package raftengine): the event loop and its *)
(* Ready cycle (engine.do), the committed-entry publisher, the snapshot    *)
(* orchestrator with its background writer, the outbound dispatcher with   *)
(* the leader's concurrent send, the proposal waiters on the message bus,  *)
(* and the lifecycle: the started flag, the engine context, Shutdown with  *)
(* its guard goroutine, Push and the two ingress channels with their       *)
(* process goroutines.  The raft protocol core, the storage and the        *)
(* application state machine are the environment: each call to them is a   *)
(* nondeterministic choice over the results their interfaces allow.        *)
(***************************************************************************)
EXTENDS Integers, Sequences, FiniteSets, TLC

(***************************************************************************)
(* Bounds of the model.                                                    *)
(***************************************************************************)
\* Ready batches the protocol core hands out in one run.
MaxReady == 2
\* The highest log index the core hands out (entries and snapshots).
MaxIndex == 2
\* Outbound messages the core hands out in one run.
MaxMsgs == 1
\* Background snapshot writers started in one run.
MaxWriters == 1
\* Concurrent ProposeReplicate callers.
MaxProposers == 1
\* Shutdown calls made in one run.
MaxShutdowns == 2
\* Push calls made in one run.
MaxPushers == 2
\* Capacity of each ingress channel (4096 in Start).
MaxQueue == 1

\* cfg.SnapInterval(): the configured distance between snapshots.
SnapInterval == 1

\* Width of the model's unsigned integers (uint64 in the code).
Wrap == 2 ^ 16

\* eng.local.ID and the other member ids of the model.
Self == 1
Peer == 2
Other == 3
Members == {Self, Peer, Other}

\* raft.None: no leader.
None == 0

\* The delay of a member's removal, in tick intervals.
RemovalDelay == 2

\* The terms the stored hard state goes through.
MaxTerm == 2

\* idutil.NewGenerator(uint16(local.ID), time.Now()): the generator's first id.
\* Its high bits hold the member id and the wall clock, far above any log index.
IdBase == 100

Threads == {"ev", "snd"}
Writers == 1 .. MaxWriters
Proposers == 1 .. MaxProposers
Stoppers == 1 .. MaxShutdowns
Pushers == 1 .. MaxPushers
\* The two ingress channels of Start.
Chans == {"proposec", "msgc"}

\* The payload caller p proposes, and the payload of an entry proposed on
\* another node: byte strings, told apart by name.
DataOf(p) == <<"d", p>>
ForeignData == <<"d", 0>>
NoData == <<>>

(***************************************************************************)
(* Pure helpers.                                                           *)
(***************************************************************************)
\* uint64 subtraction, wrapping.
USub(a, b) == (a - b + Wrap) % Wrap

\* raftpb.Replicate.Marshal: the bytes of a Replicate{CID, Data}.
Marshal(cid, data) == <<"R", cid, data>>

\* raftpb.Replicate.Unmarshal into a zero Replicate: CID stays 0 on failure.
Unmarshal(buf) ==
    IF Len(buf) = 3 /\ buf[1] = "R"
    THEN [ok |-> TRUE, cid |-> buf[2], data |-> buf[3]]
    ELSE [ok |-> FALSE, cid |-> 0, data |-> NoData]

\* etcdraftpb.ConfChange.Marshal: id, type, node id and context (member bytes).
MarshalCC(id, type, node, ctx) == <<"C", id, type, node, ctx>>

\* etcdraftpb.ConfChange.Unmarshal into a zero ConfChange.
UnmarshalCC(buf) ==
    IF Len(buf) = 5 /\ buf[1] = "C"
    THEN [ok |-> TRUE, id |-> buf[2], type |-> buf[3], node |-> buf[4], ctx |-> buf[5]]
    ELSE [ok |-> FALSE, id |-> 0, type |-> "none", node |-> 0, ctx |-> <<>>]

\* raftpb.Member.Marshal / Unmarshal of the conf change's context.
MarshalMember(id) == <<"M", id>>
UnmarshalMember(buf) ==
    IF Len(buf) = 2 /\ buf[1] = "M"
    THEN [ok |-> TRUE, id |-> buf[2]]
    ELSE [ok |-> FALSE, id |-> 0]

\* The conf state the protocol core returns from ApplyConfChange.
ApplyCC(conf, cc) ==
    CASE cc.type = "AddNode"        -> conf \cup {cc.node}
      [] cc.type = "AddLearnerNode" -> conf \cup {cc.node}
      [] cc.type = "RemoveNode"     -> conf \ {cc.node}
      [] OTHER                      -> conf

VARIABLES
    \* engine fields
    appliedIndex,   \* eng.appliedIndex
    snapIndex,      \* eng.snapIndex
    snapshoting,    \* eng.snapshoting
    confState,      \* eng.confState (the ids of the configuration)
    leader,         \* eng.leader
    \* the protocol core (eng.node): what it has handed out so far, and the
    \* environment of the run (core.env)
    core,
    \* the event loop: its position, the Ready in hand, do's locals
    pc, rd, prevIndex, ci,
    \* the send and createSnapshot frames of the event loop and of the
    \* leader's send goroutine
    fr,
    \* the background snapshot writers
    wr,
    \* the members whose delayed removal goroutine is pending
    rm,
    \* the message bus and the ProposeReplicate callers
    bus, pr,
    \* history of the current Ready cycle and of the calls made
    gh,
    \* the lifecycle: eng.started, whether Start's context and eng.ctx are
    \* done, and the propwg counter of in-flight calls
    started, ctxDone, propwg,
    \* the Shutdown callers
    sd,
    \* the ingress channels proposec and msgc, and their process goroutines
    chans, procs,
    \* the Push callers
    pu,
    \* the last call of a public operation that is a single step here
    api,
    \* the disk storage: the WAL, its metadata and what Boot returned
    disk,
    \* the state-change channel, its consumer and the goroutines that
    \* publish a role on it
    statec,
    \* the pool and the node status promotions reads, and what it proposes
    pm

lifeVars == <<started, ctxDone, propwg, sd, chans, procs, pu, api, disk, statec, pm>>

\* The lifecycle variables a call that holds propwg leaves alone.
callVars == <<started, ctxDone, sd, chans, procs, pu, api, disk, statec, pm>>

vars == <<appliedIndex, snapIndex, snapshoting, confState, leader, core,
          pc, rd, prevIndex, ci, fr, wr, rm, bus, pr, gh, lifeVars>>

engVars == <<appliedIndex, snapIndex, snapshoting, confState, leader>>


(***************************************************************************)
(* Values.                                                                 *)
(***************************************************************************)
\* raft.SoftState values the core reports; NoSoft is a Ready with none.
SoftStates ==
    { [lead |-> None, state |-> "Follower"],
      [lead |-> Peer, state |-> "Follower"],
      [lead |-> Self, state |-> "Leader"] }
NoSoft == [lead |-> None, state |-> "nil"]

\* The ConfState and member list a snapshot of the model carries.
SnapConf == {Self, Peer, Other}

\* Outbound messages of a Ready: To, Type and, for a MsgSnap, the ids of the
\* snapshot's own ConfState (Voters, Learners and VotersOutgoing together).
\* known is what pool.Get(To) reports.
MsgChoices ==
    { [to |-> Self,  type |-> "MsgApp",  cs |-> {},           known |-> TRUE],
      [to |-> Peer,  type |-> "MsgApp",  cs |-> {},           known |-> TRUE],
      [to |-> Other, type |-> "MsgApp",  cs |-> {},           known |-> FALSE],
      [to |-> Peer,  type |-> "MsgSnap", cs |-> {Self, Peer}, known |-> TRUE],
      [to |-> Peer,  type |-> "MsgSnap", cs |-> {Self},       known |-> TRUE] }

\* The Ready in hand, as far as do has read it: its soft state, its snapshot's
\* index, the index before its first committed entry and the number of its
\* committed entries.  NoReady when do is not running.
NoReady == [soft |-> NoSoft, snap |-> 0, base |-> 0, n |-> 0]

\* No message in hand.
NoMsg == [to |-> None, type |-> "none", cs |-> {}, known |-> FALSE]

\* A frame of send and createSnapshot, one per thread that runs them; m is
\* the message send has handled last and out what it did with it.
IdleFrame == [spc |-> "off", mi |-> 0, nm |-> 0, cpc |-> "off", a |-> 0, p |-> 0, cret |-> "nil",
              m |-> NoMsg, out |-> "none"]

\* A background writer slot.
FreeWriter == [pc |-> "free", a |-> 0, p |-> 0, err |-> FALSE]

\* No committed entry in hand.
NoCur == [idx |-> 0, type |-> "none", data |-> FALSE, decoded |-> FALSE,
          applied |-> 0, acc |-> 0, accOk |-> FALSE, conf |-> {},
          cid |-> 0, res |-> "none"]

\* A Shutdown caller that has not called yet: its position, the index of
\* the teardown step in hand, the steps it has finished, its result, whether
\* its context is done, and its guard goroutine.
IdleShutdown == [pc |-> "idle", i |-> 0, log |-> <<>>, ret |-> "none",
                 late |-> FALSE, ctx |-> FALSE, guard |-> "off", closing |-> FALSE]

\* A Push caller that has not called yet.
IdlePusher == [pc |-> "idle", type |-> "none", ret |-> "none"]

\* No single-step public operation called yet.
NoCall == [op |-> "none", ret |-> "none", core |-> FALSE, started |-> TRUE,
           pc |-> "off", a |-> 0, p |-> 0, created |-> FALSE]

\* A ProposeReplicate caller that has not called yet.
IdleProposer == [pc |-> "idle", cid |-> 0, data |-> NoData, ret |-> "none",
                 napply |-> 0, same |-> TRUE, aerr |-> FALSE,
                 read |-> FALSE, index |-> 0, waited |-> FALSE]

(***************************************************************************)
(* The message bus (msgbus.MsgBus): a map from ids to one-shot sinks.      *)
(***************************************************************************)
\* SubscribeOnce(id) by owner o: registers a single-use receiver.
BusSubscribe(b, id, o) ==
    [b EXCEPT !.subs = @ \cup {[id |-> id, owner |-> o]},
              !.box = [@ EXCEPT ![o] = <<>>]]

\* Unsubscribe: idempotent release of the owner's subscriptions.
BusUnsubscribe(b, o) ==
    [b EXCEPT !.subs = {s \in @ : s.owner # o}]

\* Deliver v to the owners in os and release their subscriptions.
BusDeliver(b, os, v) ==
    [b EXCEPT !.subs = {s \in @ : s.owner \notin os},
              !.box = [o \in DOMAIN @ |-> IF o \in os /\ @[o] = <<>> THEN <<v>> ELSE @[o]]]

\* Broadcast(id, v): to the subscription for id, if any; never blocks.
BusBroadcast(b, id, v) ==
    BusDeliver(b, {s.owner : s \in {x \in b.subs : x.id = id}}, v)

\* BroadcastToAll(v): to every live subscription.
BusBroadcastToAll(b, v) ==
    BusDeliver(b, {s.owner : s \in b.subs}, v)

(***************************************************************************)
(* The environment: what the protocol core hands to the engine in a run    *)
(* (the soft states it moves to, whether it delivers snapshots, the types  *)
(* of the entries it commits, the messages it emits) and the configured    *)
(* snapshot interval.                                                      *)
(***************************************************************************)
EntryTypes == {"Normal", "ConfChange"}

\* Every input the model has.
FullEnv == [softs |-> SoftStates, snaps |-> TRUE, types |-> EntryTypes,
            msgs |-> MaxMsgs, interval |-> SnapInterval]

(***************************************************************************)
(* Initial state: the engine after New and Start, before the first Ready.  *)
(***************************************************************************)
\* The empty raftpb.HardState.
NoHardState == [term |-> 0, commit |-> 0]

\* What Boot returns; done is whether Boot has returned.  snap is the index of
\* the snapshot returned, None for a nil snapshot.
NoBoot ==
    [done |-> FALSE, hs |-> NoHardState, ents |-> {}, snap |-> None, err |-> "nil"]

\* The goroutines that call the storage: the event loop, the background
\* snapshot writer and the protocol core.
StThreads == {"ev", "wr", "core"}

\* A goroutine that is in no storage operation.
NoOp == [op |-> "none", pc |-> "idle"]

\* A storage that holds nothing: the indices of the WAL's entries, the stored
\* hard state, the stored snapshot's index; lock is the goroutine that holds
\* the storage mutex, th the operation each goroutine is in.
NewDisk ==
    [ents |-> {}, hs |-> NoHardState, si |-> 0, out |-> NoBoot,
     lock |-> "free", th |-> [t \in StThreads |-> NoOp]]

\* The types of the members of the pool.
MemberTypes == {"Voter", "Staging", "Removed"}

\* What promotions reads and does: leader is whether node.Status() has a
\* Progress map, match the Match of each member in it, type and active the
\* pool's members; out is the set of members proposed with AddNode.
NoPromotion ==
    [leader |-> FALSE, match |-> [m \in Members |-> 0],
     type |-> [m \in Members |-> "Voter"], active |-> [m \in Members |-> TRUE],
     done |-> FALSE, out |-> {}]

\* The pool and the status the run begins with.
PoolOf(e) ==
    IF "pool" \in DOMAIN e
    THEN [NoPromotion EXCEPT !.leader = e.pool.leader, !.match = e.pool.match,
                             !.type = e.pool.type, !.active = e.pool.active]
    ELSE NoPromotion

\* The state-change channel of the configuration: on is whether one is
\* configured, cap its capacity, q the roles queued, rcv whether its consumer
\* is blocked in a receive; go and role are the goroutines do has started,
\* one for a Ready cycle, and the role each has to publish.
NoStatec ==
    [on |-> FALSE, cap |-> 0, q |-> <<>>, rcv |-> FALSE,
     go |-> [g \in 1 .. MaxReady |-> "none"],
     role |-> [g \in 1 .. MaxReady |-> "nil"]]

\* New, line 69: the channel cfg.StateChangeCh() returns, nil unless set.
StatecOf(e) ==
    IF "statec" \in DOMAIN e
    THEN [NoStatec EXCEPT !.on = TRUE, !.cap = e.statec]
    ELSE NoStatec

\* do, lines 460-469: the goroutine started for a soft state; with a nil
\* channel it returns at once.
Spawn(c, g, role) ==
    IF c.on THEN [c EXCEPT !.go[g] = "run", !.role[g] = role] ELSE c

InitWith(e) ==
    /\ appliedIndex = 0
    /\ snapIndex = 0
    /\ snapshoting = FALSE
    /\ confState = {}          \* nil: no snapshot installed, no conf change applied
    /\ leader = FALSE
    /\ disk = NewDisk
    /\ statec = StatecOf(e)
    /\ pm = PoolOf(e)
    /\ core = [soft |-> [lead |-> None, state |-> "Follower"], applied |-> 0,
               conf |-> {Self, Peer}, nready |-> 0, nmsgs |-> 0, pending |-> {},
               reads |-> {},
               idgen |-> 0, env |-> e]
    /\ pc = "idle"
    /\ rd = NoReady
    /\ prevIndex = 0
    /\ ci = 0
    /\ fr = [t \in Threads |-> IdleFrame]
    /\ wr = [w \in Writers |-> FreeWriter]
    /\ rm = {}
    /\ bus = [subs |-> {}, box |-> [p \in Proposers |-> <<>>]]
    /\ pr = [p \in Proposers |-> IdleProposer]
    /\ gh = [saved |-> FALSE, pre |-> {}, unadv |-> 0, cur |-> NoCur,
             stop |-> "none", calls |-> {}, nils |-> {}]
    /\ started = TRUE
    /\ ctxDone = [start |-> FALSE, eng |-> FALSE]
    /\ propwg = 0
    /\ sd = [c \in Stoppers |-> IdleShutdown]
    /\ chans = [closed |-> FALSE, len |-> [k \in Chans |-> 0]]
    /\ procs = [k \in Chans |-> "range"]
    /\ pu = [c \in Pushers |-> IdlePusher]
    /\ api = NoCall

Init == InitWith(FullEnv)

\* An event of the current Ready cycle, kept when it comes before SaveEntries
\* of the cycle has returned: "apply" (fsm.Apply), "bcastId" (Broadcast to
\* an id), "bcastAll" (BroadcastToAll) and "send" (a message sent or stepped
\* in a cycle whose node is not leader).
Note(g, ev) == IF g.saved THEN g ELSE [g EXCEPT !.pre = @ \cup {ev}]

\* The error do returns to eventLoop, which returns it to Start: g.stop names
\* the call that failed, g.calls the storage, pool and state machine calls
\* publishSnapshot has made in the cycle.
Fails(g, why, calls) == [g EXCEPT !.stop = why, !.calls = @ \cup calls]

(***************************************************************************)
(* The event loop (engine.eventLoop) and the Ready cycle (engine.do).      *)
(***************************************************************************)
\* eng.leader as do computes it from the Ready's soft state.
IsLeader(soft) == soft.state = "Leader"

\* A do that never takes a soft state for the loss of the leader.
LeaderNeverLost(soft) == FALSE

\* do, lines 455-457: the Ready carries a soft state and its leader is none.
LeaderLost(soft) == soft # NoSoft /\ soft.lead = None

\* A do that starts the concurrent send whatever the role.
SpawnsAlways(l) == TRUE

\* do starts send concurrently with persistence exactly when eng.leader.
SpawnsSend(l) == l

\* A publishSnapshot that rejects no snapshot.
SnapNeverStale(idx, applied) == FALSE

\* A publishSnapshot that lets through a snapshot at appliedIndex itself.
SnapStaleStrict(idx, applied) == idx < applied

\* publishSnapshot's rejection test: the snapshot is not ahead of appliedIndex.
SnapStale(idx, applied) == idx <= applied

\* A publishCommitted that takes the index of the entry before.
EntryIndexBefore(r, k) == r.base + k

\* The index of the k-th committed entry (from 0) of the Ready in hand: the
\* core hands out consecutive indices after its applied cursor or snapshot.
EntryIndex(r, k) == r.base + k + 1

\* The index of the snapshot a Ready may carry: none (0), or one at, just
\* behind or just ahead of what the core has handed out so far.
SnapChoices ==
    IF core.env.snaps
    THEN {0} \cup ({core.applied - 1, core.applied, core.applied + 1} \cap (1 .. MaxIndex))
    ELSE {0}

\* The numbers of messages a Ready may carry.
MsgCounts == 0 .. (core.env.msgs - core.nmsgs)

\* case rd := <-eng.node.Ready() and do, lines 453-478: the core hands out
\* a Ready, which carries a soft state exactly when it differs from the one
\* of the previous Ready; do reads appliedIndex into prevIndex, the soft
\* state sets eng.leader, a leaderless one is broadcast to every waiter, and
\* the leader starts its concurrent send.  The other parts of the Ready are
\* drawn where do first reads them.
EvReady ==
    /\ pc = "idle"
    /\ core.nready < MaxReady
    /\ \E soft \in (core.env.softs \ {core.soft}) \cup {NoSoft} :
          LET l == IF soft # NoSoft THEN IsLeader(soft) ELSE leader
              lost == LeaderLost(soft)
              g == [gh EXCEPT !.unadv = @ + 1]
          IN
          /\ rd' = [NoReady EXCEPT !.soft = soft]
          /\ leader' = l
          /\ bus' = IF lost THEN BusBroadcastToAll(bus, "ErrNoLeader") ELSE bus
          /\ gh' = IF lost THEN Note(g, "bcastAll") ELSE g
          /\ statec' = IF soft # NoSoft THEN Spawn(statec, core.nready + 1, soft.state)
                        ELSE statec
          /\ \E nm \in IF SpawnsSend(l) THEN MsgCounts ELSE {0} :
                /\ fr' = IF SpawnsSend(l)
                          THEN [fr EXCEPT !["snd"] = [IdleFrame EXCEPT !.spc = "run", !.nm = nm]]
                          ELSE fr
                /\ core' = [core EXCEPT !.nready = @ + 1,
                                        !.soft = IF soft = NoSoft THEN @ ELSE soft,
                                        !.nmsgs = @ + nm]
    /\ prevIndex' = appliedIndex
    /\ pc' = "save"
    /\ UNCHANGED <<appliedIndex, snapIndex, snapshoting, confState,
                   ci, wr, rm, pr>>
    /\ UNCHANGED <<pm, disk, started, ctxDone, propwg, sd, chans, procs, pu, api>>

\* A do that goes on without waiting for saveEntries to return.
DoSaveSkipped ==
    /\ pc = "save"
    /\ pc' = "pubsnap"
    /\ UNCHANGED <<engVars, core, rd, prevIndex, ci, fr, wr, rm, bus, pr, gh>>
    /\ UNCHANGED lifeVars

\* A do that logs the failure of saveEntries and goes on with the cycle.
DoSaveGoesOn ==
    /\ pc = "save"
    /\ pc' = "pubsnap"
    /\ \/ gh' = [gh EXCEPT !.saved = TRUE]
       \/ gh' = Fails(gh, "SaveEntries", {})
    /\ UNCHANGED <<engVars, core, rd, prevIndex, ci, fr, wr, rm, bus, pr>>
    /\ UNCHANGED lifeVars

\* do, lines 480-482: saveEntries; a failure ends do and the event loop.
DoSave ==
    /\ pc = "save"
    /\ \/ /\ pc' = "pubsnap"
          /\ gh' = [gh EXCEPT !.saved = TRUE]
       \/ /\ pc' = "stopped"
          /\ gh' = Fails(gh, "SaveEntries", {})
    /\ UNCHANGED <<engVars, core, rd, prevIndex, ci, fr, wr, rm, bus, pr>>
    /\ UNCHANGED lifeVars

\* The number of committed entries a Ready may carry after index base.
EntryCounts(base) == 0 .. (MaxIndex - base)

\* publishSnapshot: nothing for an empty snapshot, an error for a stale one,
\* else SaveSnapshot and Snapshotter.Read, either of which may fail.  The core
\* that hands out a snapshot has restored its own state from it.
DoPubSnap ==
    /\ pc = "pubsnap"
    /\ \E snap \in SnapChoices :
          \/ /\ snap = 0
             /\ pc' = "commit"
             /\ gh' = gh
             /\ \E n \in EntryCounts(core.applied) :
                   /\ rd' = [rd EXCEPT !.base = core.applied, !.n = n]
                   /\ core' = [core EXCEPT !.applied = @ + n]
          \/ /\ snap # 0
             /\ SnapStale(snap, appliedIndex)
             /\ pc' = "stopped"
             /\ gh' = Fails(gh, "stale", {})
             /\ rd' = [rd EXCEPT !.snap = snap]
             /\ core' = core
          \/ /\ snap # 0
             /\ ~SnapStale(snap, appliedIndex)
             /\ \/ /\ pc' = "psfRestore"
                   /\ gh' = [gh EXCEPT !.calls = {"SaveSnapshot", "Read"}]
                \/ /\ pc' = "stopped"
                   /\ gh' = Fails(gh, "SaveSnapshot", {"SaveSnapshot"})
                \/ /\ pc' = "stopped"
                   /\ gh' = Fails(gh, "Read", {"SaveSnapshot", "Read"})
             /\ rd' = [rd EXCEPT !.snap = snap]
             /\ core' = [core EXCEPT !.applied = snap, !.conf = SnapConf]
    /\ UNCHANGED <<engVars, prevIndex, ci, fr, wr, rm, bus, pr>>
    /\ UNCHANGED lifeVars

\* publishSnapshotFile, lines 689-699: storage.ApplySnapshot, pool.Restore and
\* fsm.Restore, each of which may fail, then the snapshot's ConfState is set.
PsfRestore ==
    /\ pc = "psfRestore"
    /\ \/ /\ pc' = "stopped"
          /\ confState' = confState
          /\ gh' = Fails(gh, "ApplySnapshot", {"ApplySnapshot"})
       \/ /\ pc' = "stopped"
          /\ confState' = confState
          /\ gh' = Fails(gh, "Restore", {"ApplySnapshot", "pool.Restore", "fsm.Restore"})
       \/ /\ pc' = "psfSnap"
          /\ confState' = SnapConf
          /\ gh' = [gh EXCEPT !.calls = @ \cup {"ApplySnapshot", "pool.Restore", "fsm.Restore"}]
    /\ UNCHANGED <<appliedIndex, snapIndex, snapshoting, leader, core,
                   rd, prevIndex, ci, fr, wr, rm, bus, pr>>
    /\ UNCHANGED lifeVars

\* publishSnapshotFile, line 700.
PsfSnap ==
    /\ pc = "psfSnap"
    /\ snapIndex' = rd.snap
    /\ pc' = "psfApplied"
    /\ UNCHANGED <<appliedIndex, snapshoting, confState, leader, core,
                   rd, prevIndex, ci, fr, wr, rm, bus, pr, gh>>
    /\ UNCHANGED lifeVars

\* publishSnapshotFile, line 701.
PsfApplied ==
    /\ pc = "psfApplied"
    /\ appliedIndex' = rd.snap
    /\ pc' = "commit"
    /\ \E n \in EntryCounts(rd.snap) :
          /\ rd' = [rd EXCEPT !.base = rd.snap, !.n = n]
          /\ core' = [core EXCEPT !.applied = rd.snap + n]
    /\ UNCHANGED <<snapIndex, snapshoting, confState, leader,
                   prevIndex, ci, fr, wr, rm, bus, pr, gh>>
    /\ UNCHANGED lifeVars

(***************************************************************************)
(* The committed-entry publisher.                                          *)
(***************************************************************************)
\* An id no caller of this node waits on: an entry proposed elsewhere.
ForeignId == IdBase - 1

\* The committed entries the core may hand out next: an empty entry, data
\* that does not decode, a Replicate proposed on another node, a Replicate a
\* local caller proposed and the core accepted, and conf changes.
CCTypes == {"AddNode", "AddLearnerNode", "UpdateNode", "RemoveNode"}
CCContexts == { <<>>, <<"X">>, MarshalMember(Other) }
AllEntries ==
    { [type |-> "Normal", data |-> <<>>],
      [type |-> "Normal", data |-> <<"X">>],
      [type |-> "Normal", data |-> Marshal(ForeignId, ForeignData)],
      [type |-> "ConfChange", data |-> <<"X">>] }
    \cup { [type |-> "Normal", data |-> Marshal(pr[p].cid, pr[p].data)] : p \in core.pending }
    \cup { [type |-> "ConfChange", data |-> MarshalCC(ForeignId, t, Other, c)] :
             t \in CCTypes, c \in CCContexts }
EntryChoices == { e \in AllEntries : e.type \in core.env.types }

\* The callers' history after Apply(data) for change id cid returned res.
Applied(q, cid, data, res) ==
    [p \in Proposers |->
        IF q[p].pc # "idle" /\ q[p].cid = cid
        THEN [q[p] EXCEPT !.napply = @ + 1,
                          !.same = @ /\ data = q[p].data,
                          !.aerr = @ \/ res # "nil"]
        ELSE q[p]]

\* What fsm.Apply may return.
ApplyResults == {"nil", "err"}

\* A publishReplicate that hands a failure of Apply to every waiter.
PublishReplicateToAll(ent, idx) ==
    LET r == Unmarshal(ent.data) IN
    /\ \/ /\ ~r.ok
          /\ bus' = BusBroadcast(bus, r.cid, "err")
          /\ pr' = pr
          /\ gh' = [Note(gh, "bcastId") EXCEPT
                      !.cur = [NoCur EXCEPT !.idx = idx, !.type = "Normal", !.data = TRUE]]
       \/ /\ r.ok
          /\ \E res \in ApplyResults :
                /\ bus' = IF res = "nil" THEN BusBroadcast(bus, r.cid, res)
                                          ELSE BusBroadcastToAll(bus, res)
                /\ pr' = Applied(pr, r.cid, r.data, res)
                /\ gh' = [Note(Note(gh, "apply"), "bcastId") EXCEPT
                            !.cur = [NoCur EXCEPT !.idx = idx, !.type = "Normal", !.data = TRUE,
                                                  !.decoded = TRUE, !.applied = 1,
                                                  !.cid = r.cid, !.res = res]]
    /\ UNCHANGED <<confState, rm>>
    /\ core' = [core EXCEPT !.pending = {p \in @ : pr[p].cid # r.cid}]

\* publishReplicate: decode, Apply, and the deferred Broadcast(r.CID, err).
PublishReplicate(ent, idx) ==
    LET r == Unmarshal(ent.data) IN
    /\ \/ /\ ~r.ok
          /\ bus' = BusBroadcast(bus, r.cid, "err")
          /\ pr' = pr
          /\ gh' = [Note(gh, "bcastId") EXCEPT
                      !.cur = [NoCur EXCEPT !.idx = idx, !.type = "Normal", !.data = TRUE]]
       \/ /\ r.ok
          /\ \E res \in ApplyResults :
                /\ bus' = BusBroadcast(bus, r.cid, res)
                /\ pr' = Applied(pr, r.cid, r.data, res)
                /\ gh' = [Note(Note(gh, "apply"), "bcastId") EXCEPT
                            !.cur = [NoCur EXCEPT !.idx = idx, !.type = "Normal", !.data = TRUE,
                                                  !.decoded = TRUE, !.applied = 1,
                                                  !.cid = r.cid, !.res = res]]
    /\ UNCHANGED <<confState, rm>>
    /\ core' = [core EXCEPT !.pending = {p \in @ : pr[p].cid # r.cid}]

\* publishConfChange, lines 764-770: the early returns on a change without
\* a member payload and on a payload that does not decode.
CCReturnsEarly(cc) == Len(cc.ctx) = 0 \/ ~UnmarshalMember(cc.ctx).ok

\* publishConfChange: decode, the pool operation of the change's type,
\* node.ApplyConfChange, and the deferred Broadcast(cc.ID, err).
PublishConfChange(ent, idx) ==
    LET cc == UnmarshalCC(ent.data)
        mem == UnmarshalMember(cc.ctx)
        cur == [NoCur EXCEPT !.idx = idx, !.type = "ConfChange", !.data = Len(ent.data) > 0,
                             !.decoded = cc.ok]
    IN
    /\ pr' = pr
    /\ \/ /\ ~cc.ok
          /\ bus' = BusBroadcast(bus, cc.id, "err")
          /\ gh' = [Note(gh, "bcastId") EXCEPT !.cur = cur]
          /\ UNCHANGED <<confState, rm, core>>
       \/ /\ cc.ok
          /\ CCReturnsEarly(cc)
          /\ bus' = BusBroadcast(bus, cc.id, IF Len(cc.ctx) = 0 THEN "nil" ELSE "err")
          /\ gh' = [Note(gh, "bcastId") EXCEPT !.cur = cur]
          /\ UNCHANGED <<confState, rm, core>>
       \/ /\ cc.ok
          /\ ~CCReturnsEarly(cc)
          /\ \E res \in {"nil", "err"} :
                /\ res = "err" => cc.type \in {"AddNode", "AddLearnerNode", "UpdateNode"}
                /\ bus' = BusBroadcast(bus, cc.id, res)
          /\ rm' = IF cc.type = "RemoveNode"
                   THEN rm \cup {[id |-> mem.id, left |-> RemovalDelay, off |-> FALSE]}
                   ELSE rm
          /\ confState' = ApplyCC(core.conf, cc)
          /\ core' = [core EXCEPT !.conf = ApplyCC(@, cc)]
          /\ gh' = [Note(gh, "bcastId") EXCEPT
                      !.cur = [cur EXCEPT !.acc = 1, !.accOk = TRUE,
                                          !.conf = ApplyCC(core.conf, cc)]]

\* publishCommitted, lines 708-714: the next entry of the Ready's committed
\* slice is handled by its type; past the last one do goes on.
DoCommit ==
    /\ pc = "commit"
    /\ \/ /\ ci = rd.n
          /\ pc' = IF core.reads = {} THEN "bcast" ELSE "readState"
          /\ UNCHANGED <<confState, rm, core, bus, pr, gh>>
       \/ /\ ci < rd.n
          /\ pc' = "setApplied"
          /\ \E ent \in EntryChoices :
                CASE ent.type = "Normal" /\ Len(ent.data) > 0 ->
                        PublishReplicate(ent, EntryIndex(rd, ci))
                  [] ent.type = "ConfChange" ->
                        PublishConfChange(ent, EntryIndex(rd, ci))
                  [] OTHER ->
                        /\ gh' = [gh EXCEPT !.cur = [NoCur EXCEPT !.idx = EntryIndex(rd, ci),
                                                                   !.type = "Normal"]]
                        /\ UNCHANGED <<confState, rm, core, bus, pr>>
    /\ UNCHANGED <<appliedIndex, snapIndex, snapshoting, leader, rd, prevIndex, ci, fr, wr>>
    /\ UNCHANGED lifeVars

\* publishCommitted, line 715: appliedIndex.Set(ent.Index), whatever the entry.
DoSetApplied ==
    /\ pc = "setApplied"
    /\ appliedIndex' = EntryIndex(rd, ci)
    /\ ci' = ci + 1
    /\ pc' = "commit"
    /\ gh' = [gh EXCEPT !.cur = NoCur]
    /\ UNCHANGED <<snapIndex, snapshoting, confState, leader, core, rd,
                   prevIndex, fr, wr, rm, bus, pr>>
    /\ UNCHANGED lifeVars

\* A tick interval passes: the timers of the pending removal goroutines
\* (time.After, line 783) come one interval nearer; a goroutine whose
\* context is done returns within the interval.  r.off notes that the
\* engine context was done before the timer of r had run out.
RmTick ==
    /\ \E r \in rm : r.left > 0
    /\ ~ctxDone.start
    /\ rm' = { [r EXCEPT !.left = IF @ > 0 THEN @ - 1 ELSE 0,
                         !.off = @ \/ (r.left > 0 /\ ctxDone.eng)] : r \in rm }
    /\ UNCHANGED <<appliedIndex, snapIndex, snapshoting, confState, leader, core,
                   pc, rd, prevIndex, ci, fr, wr, bus, pr, gh>>
    /\ UNCHANGED lifeVars

\* The removal goroutine of publishConfChange, lines 783-786: after two tick
\* intervals pool.Remove, whatever it returns.
RemoveMember(m) ==
    /\ \E r \in rm :
          /\ r.id = m
          /\ r.left = 0
          /\ rm' = rm \ {r}
    /\ UNCHANGED <<appliedIndex, snapIndex, snapshoting, confState, leader, core,
                   pc, rd, prevIndex, ci, fr, wr, bus, pr, gh>>
    /\ UNCHANGED lifeVars

\* The removal goroutine, lines 787-788: the context of do, which is the
\* context given to Start (lines 420-421), is done and the goroutine
\* returns without pool.Remove.
RmCancel(m) ==
    /\ ctxDone.start
    /\ \E r \in rm :
          /\ r.id = m
          /\ rm' = rm \ {r}
    /\ UNCHANGED <<appliedIndex, snapIndex, snapshoting, confState, leader, core,
                   pc, rd, prevIndex, ci, fr, wr, bus, pr, gh>>
    /\ UNCHANGED lifeVars

\* A read index as the value of a broadcast (an interface{} holding a
\* uint64), and back: the type assertions of LinearizableRead, lines 141-144.
IndexValue(i) == ToString(i)
IsIndexValue(v) == \E i \in 0 .. MaxIndex : v = IndexValue(i)
ValueIndex(v) == CHOOSE i \in 0 .. MaxIndex : v = IndexValue(i)

\* The read indices a Ready may carry: the leader's commit index, which is
\* just behind, at or ahead of what this node has applied.
ReadIndices == { i \in 0 .. MaxIndex : i + 1 >= appliedIndex }

\* publishReadState: the Ready answers some of the read requests the core
\* holds, each with the leader's commit index, which is broadcast to the
\* request's id.
DoReadState ==
    /\ pc = "readState"
    /\ \E ans \in SUBSET core.reads : \E i \in ReadIndices :
          /\ bus' = BusDeliver(bus, {s.owner : s \in {x \in bus.subs :
                                      \E q \in ans : x.id = pr[q].cid}}, IndexValue(i))
          /\ core' = [core EXCEPT !.reads = @ \ ans]
    /\ pc' = "bcast"
    /\ UNCHANGED <<engVars, rd, prevIndex, ci, fr, wr, rm, pr, gh>>
    /\ UNCHANGED lifeVars

\* Broadcast(i, nil) for every i from lo while i < hi, in ascending order.
RECURSIVE BroadcastRange(_, _, _)
BroadcastRange(b, lo, hi) ==
    IF lo < hi THEN BroadcastRange(BusBroadcast(b, lo, "nil"), lo + 1, hi) ELSE b

\* A loop that stops one index short of curr.
LoopIdsShort(i, hi) == { j \in 0 .. Wrap - 1 : i <= j /\ j + 1 < hi }

\* The ids the loop of publishAppliedIndices calls Broadcast with, from
\* i := prev + 1 while i < curr + 1.
RECURSIVE LoopIds(_, _)
LoopIds(i, hi) == IF i < hi THEN {i} \cup LoopIds((i + 1) % Wrap, hi) ELSE {}

\* publishAppliedIndices: Broadcast(i, nil) for prev < i <= curr; gh.nils
\* keeps the ids of the calls.
DoBcast ==
    /\ pc = "bcast"
    /\ LET lo == (prevIndex + 1) % Wrap
           hi == (appliedIndex + 1) % Wrap
       IN /\ bus' = BroadcastRange(bus, lo, hi)
          /\ gh' = [(IF lo < hi THEN Note(gh, "bcastId") ELSE gh)
                       EXCEPT !.nils = LoopIds(lo, hi)]
    /\ pc' = "maybeSnap"
    /\ UNCHANGED <<engVars, core, rd, prevIndex, ci, fr, wr, rm, pr>>
    /\ UNCHANGED lifeVars

(***************************************************************************)
(* The snapshot orchestrator.                                              *)
(***************************************************************************)
\* do, lines 497-501, entered when maybeCreateSnapshot returns: a follower
\* sends the Ready's messages itself, the leader waits for its send.
EnterSend ==
    IF leader
    THEN /\ pc' = "waitSend"
         /\ fr' = [fr EXCEPT !["ev"] = IdleFrame]
         /\ core' = core
    ELSE /\ pc' = "sending"
         /\ \E nm \in MsgCounts :
               /\ fr' = [fr EXCEPT !["ev"] = [IdleFrame EXCEPT !.spc = "run", !.nm = nm]]
               /\ core' = [core EXCEPT !.nmsgs = @ + nm]

\* A gate that lets a distance of exactly SnapInterval through.
WithinIntervalStrict(applied, snap) == USub(applied, snap) < core.env.interval

\* maybeCreateSnapshot's gate on the distance, computed in uint64.
WithinInterval(applied, snap) == USub(applied, snap) <= core.env.interval

\* maybeCreateSnapshot, line 963, left operand: the distance between the
\* applied and the snapshot index.
DoMaybeSnap ==
    /\ pc = "maybeSnap"
    /\ IF WithinInterval(appliedIndex, snapIndex)
       THEN EnterSend
       ELSE /\ pc' = "maybeSnap2"
            /\ UNCHANGED <<fr, core>>
    /\ UNCHANGED <<engVars, rd, prevIndex, ci, wr, rm, bus, pr, gh>>
    /\ UNCHANGED lifeVars

\* maybeCreateSnapshot, line 963, right operand, and the call of createSnapshot.
DoMaybeSnap2 ==
    /\ pc = "maybeSnap2"
    /\ IF snapshoting
       THEN EnterSend
       ELSE /\ pc' = "creating"
            /\ fr' = [fr EXCEPT !["ev"] = [IdleFrame EXCEPT !.cpc = "readA"]]
            /\ core' = core
    /\ UNCHANGED <<engVars, rd, prevIndex, ci, wr, rm, bus, pr, gh>>
    /\ UNCHANGED lifeVars

\* maybeCreateSnapshot, lines 967-976: createSnapshot returned; its error is logged.
DoMaybeSnapRet ==
    /\ pc = "creating"
    /\ fr["ev"].cpc = "ret"
    /\ EnterSend
    /\ UNCHANGED <<engVars, rd, prevIndex, ci, wr, rm, bus, pr, gh>>
    /\ UNCHANGED lifeVars

\* createSnapshot, line 983.
CsReadA(t) ==
    /\ fr[t].cpc = "readA"
    /\ fr' = [fr EXCEPT ![t].a = appliedIndex, ![t].cpc = "readS"]
    /\ UNCHANGED <<engVars, core, pc, rd, prevIndex, ci, wr, rm, bus, pr, gh>>
    /\ UNCHANGED lifeVars

\* createSnapshot, lines 984-988: nothing to do when the indices are equal.
CsReadS(t) ==
    /\ fr[t].cpc = "readS"
    /\ fr' = IF fr[t].a = snapIndex
             THEN [fr EXCEPT ![t].p = snapIndex, ![t].cpc = "ret", ![t].cret = "nil"]
             ELSE [fr EXCEPT ![t].p = snapIndex, ![t].cpc = "chk"]
    /\ UNCHANGED <<engVars, core, pc, rd, prevIndex, ci, wr, rm, bus, pr, gh>>
    /\ UNCHANGED lifeVars

\* createSnapshot, lines 990-992: the test of the snapshoting flag.
CsCheck(t) ==
    /\ fr[t].cpc = "chk"
    /\ fr' = IF snapshoting
             THEN [fr EXCEPT ![t].cpc = "ret", ![t].cret = "ErrAlreadySnapshotting"]
             ELSE [fr EXCEPT ![t].cpc = "set"]
    /\ UNCHANGED <<engVars, core, pc, rd, prevIndex, ci, wr, rm, bus, pr, gh>>
    /\ UNCHANGED lifeVars

\* createSnapshot, line 994: the flag is set, in a step of its own.
CsSet(t) ==
    /\ fr[t].cpc = "set"
    /\ snapshoting' = TRUE
    /\ fr' = [fr EXCEPT ![t].cpc = "run"]
    /\ UNCHANGED <<appliedIndex, snapIndex, confState, leader, core, pc, rd,
                   prevIndex, ci, wr, rm, bus, pr, gh>>
    /\ UNCHANGED lifeVars

\* The first free writer slot, 0 when all were used.
FreeSlot == IF \E w \in Writers : wr[w].pc = "free"
            THEN CHOOSE w \in Writers : wr[w].pc = "free" /\ \A v \in Writers : wr[v].pc = "free" => w <= v
            ELSE 0

\* createSnapshot, lines 996-1060: fsm.Snapshot and storage.CreateSnapshot,
\* each of which may fail and then clears the flag, and the start of the
\* background writer.
CsRun(t) ==
    /\ fr[t].cpc = "run"
    /\ \/ /\ \E e \in {"err", "ErrFailedPrecondition"} :
                fr' = [fr EXCEPT ![t].cpc = "ret", ![t].cret = e]
          /\ snapshoting' = FALSE
          /\ wr' = wr
       \/ /\ FreeSlot # 0
          /\ wr' = [wr EXCEPT ![FreeSlot] = [pc |-> "persist", a |-> fr[t].a,
                                             p |-> fr[t].p, err |-> FALSE]]
          /\ fr' = [fr EXCEPT ![t].cpc = "ret", ![t].cret = "nil"]
          /\ snapshoting' = snapshoting
    /\ UNCHANGED <<appliedIndex, snapIndex, confState, leader, core, pc, rd,
                   prevIndex, ci, rm, bus, pr, gh>>
    /\ UNCHANGED lifeVars

\* The writer, lines 1025-1033: Snapshotter.Write and SaveSnapshot, either of
\* which may fail, then snapIndex.Set(appliedIndex).
WrPersist(w) ==
    /\ wr[w].pc = "persist"
    /\ \/ /\ wr' = [wr EXCEPT ![w].pc = "unset", ![w].err = TRUE]
          /\ snapIndex' = snapIndex
       \/ /\ wr' = [wr EXCEPT ![w].pc = "compact"]
          /\ snapIndex' = wr[w].a
    /\ UNCHANGED <<appliedIndex, snapshoting, confState, leader, core, pc, rd,
                   prevIndex, ci, fr, rm, bus, pr, gh>>
    /\ UNCHANGED lifeVars

\* The writer, lines 1035-1045: storage.Compact at appliedIndex - SnapInterval
\* when that is positive; it may fail.
WrCompact(w) ==
    /\ wr[w].pc = "compact"
    /\ \/ wr' = [wr EXCEPT ![w].pc = "unset"]
       \/ /\ wr[w].a > core.env.interval
          /\ wr' = [wr EXCEPT ![w].pc = "unset", ![w].err = TRUE]
    /\ UNCHANGED <<engVars, core, pc, rd, prevIndex, ci, fr, rm, bus, pr, gh>>
    /\ UNCHANGED lifeVars

\* A writer whose UnSet is not deferred: a failed fn returns without it.
WrUnsetOnSuccess(w) ==
    /\ wr[w].pc = "unset"
    /\ snapshoting' = IF wr[w].err THEN snapshoting ELSE FALSE
    /\ wr' = IF wr[w].err THEN [wr EXCEPT ![w].pc = "rewind"]
             ELSE [wr EXCEPT ![w] = [FreeWriter EXCEPT !.pc = "done"]]
    /\ UNCHANGED <<appliedIndex, snapIndex, confState, leader, core, pc, rd,
                   prevIndex, ci, fr, rm, bus, pr, gh>>
    /\ UNCHANGED lifeVars

\* The writer, line 1023: the deferred snapshoting.UnSet, when fn returns.
WrUnset(w) ==
    /\ wr[w].pc = "unset"
    /\ snapshoting' = FALSE
    /\ wr' = IF wr[w].err THEN [wr EXCEPT ![w].pc = "rewind"]
             ELSE [wr EXCEPT ![w] = [FreeWriter EXCEPT !.pc = "done"]]
    /\ UNCHANGED <<appliedIndex, snapIndex, confState, leader, core, pc, rd,
                   prevIndex, ci, fr, rm, bus, pr, gh>>
    /\ UNCHANGED lifeVars

\* A goroutine that only logs the error of fn.
WrNoRewind(w) ==
    /\ wr[w].pc = "rewind"
    /\ snapIndex' = snapIndex
    /\ wr' = [wr EXCEPT ![w] = [FreeWriter EXCEPT !.pc = "done"]]
    /\ UNCHANGED <<appliedIndex, snapshoting, confState, leader, core, pc, rd,
                   prevIndex, ci, fr, rm, bus, pr, gh>>
    /\ UNCHANGED lifeVars

\* The writer's goroutine, lines 1051-1058: on an error snapIndex is set
\* back to the value createSnapshot read.
WrRewind(w) ==
    /\ wr[w].pc = "rewind"
    /\ snapIndex' = wr[w].p
    /\ wr' = [wr EXCEPT ![w] = [FreeWriter EXCEPT !.pc = "done"]]
    /\ UNCHANGED <<appliedIndex, snapshoting, confState, leader, core, pc, rd,
                   prevIndex, ci, fr, rm, bus, pr, gh>>
    /\ UNCHANGED lifeVars

(***************************************************************************)
(* The outbound dispatcher.                                                *)
(***************************************************************************)
\* A forceSnapshot that takes every MsgSnap.
ForcesAnySnapshot(m) == m.type = "MsgSnap"

\* forceSnapshot's test: a MsgSnap whose target is in none of the sets of
\* the snapshot's own ConfState.
ForcesSnapshot(m) == m.type = "MsgSnap" /\ m.to \notin m.cs

\* A wg.Wait that does not wait.
SendNotAwaited(f) == TRUE

\* send has handled every message of the Ready.
SendDone(f) == f.spc = "done"

\* send, one message: stepped locally, dropped for an unknown member, taken
\* by forceSnapshot, or passed to the member's Send.
SendMsg(t) ==
    /\ fr[t].spc = "run"
    /\ fr[t].mi < fr[t].nm
    /\ \E m \in MsgChoices :
          IF m.to = Self
          THEN /\ fr' = [fr EXCEPT ![t].mi = @ + 1, ![t].m = m, ![t].out = "Step"]
               /\ gh' = IF leader THEN gh ELSE Note(gh, "send")
          ELSE IF ~m.known
          THEN /\ fr' = [fr EXCEPT ![t].mi = @ + 1, ![t].m = m, ![t].out = "unknown"]
               /\ gh' = gh
          ELSE IF ForcesSnapshot(m)
          THEN /\ fr' = [fr EXCEPT ![t].spc = "force", ![t].cpc = "readA",
                                   ![t].m = m, ![t].out = "createSnapshot"]
               /\ gh' = gh
          ELSE /\ fr' = [fr EXCEPT ![t].mi = @ + 1, ![t].m = m, ![t].out = "Send"]
               /\ gh' = IF leader THEN gh ELSE Note(gh, "send")
    /\ pc' = pc
    /\ UNCHANGED <<engVars, core, rd, prevIndex, ci, wr, rm, bus, pr>>
    /\ UNCHANGED lifeVars

\* forceSnapshot, lines 950-956: createSnapshot returned; the deferred
\* ReportSnapshot(SnapshotFailure) and on to the next message.
SendForced(t) ==
    /\ fr[t].spc = "force"
    /\ fr[t].cpc = "ret"
    /\ fr' = [fr EXCEPT ![t] = [IdleFrame EXCEPT !.spc = "run", !.mi = fr[t].mi + 1,
                                                 !.nm = fr[t].nm, !.m = fr[t].m,
                                                 !.out = "ReportSnapshot"]]
    /\ UNCHANGED <<engVars, core, pc, rd, prevIndex, ci, wr, rm, bus, pr, gh>>
    /\ UNCHANGED lifeVars

\* send returns: the follower's send returns into do, the leader's
\* goroutine finishes (wg.Done).
SendEnd(t) ==
    /\ fr[t].spc = "run"
    /\ fr[t].mi = fr[t].nm
    /\ IF t = "ev"
       THEN /\ pc = "sending"
            /\ pc' = "advance"
            /\ fr' = [fr EXCEPT ![t] = IdleFrame]
       ELSE /\ pc' = pc
            /\ fr' = [fr EXCEPT ![t].spc = "done", ![t].m = NoMsg, ![t].out = "none"]
    /\ UNCHANGED <<engVars, core, rd, prevIndex, ci, wr, rm, bus, pr, gh>>
    /\ UNCHANGED lifeVars

\* do, line 500: the leader's wg.Wait returns when its send has finished.
DoWaitSend ==
    /\ pc = "waitSend"
    /\ SendDone(fr["snd"])
    /\ pc' = "advance"
    /\ UNCHANGED <<engVars, core, rd, prevIndex, ci, fr, wr, rm, bus, pr, gh>>
    /\ UNCHANGED lifeVars

\* do, line 502: node.Advance; do returns nil, its WaitGroup and the
\* finished send goroutine are gone, and the loop selects again.
DoAdvance ==
    /\ pc = "advance"
    /\ pc' = "idle"
    /\ gh' = [gh EXCEPT !.unadv = @ - 1, !.saved = FALSE, !.pre = {}, !.cur = NoCur,
                      !.nils = {}, !.calls = {}]
    /\ rd' = NoReady
    /\ prevIndex' = 0
    /\ ci' = 0
    /\ fr' = [fr EXCEPT !["snd"] = IF @.spc = "done" THEN IdleFrame ELSE @]
    /\ UNCHANGED <<engVars, core, wr, rm, bus, pr>>
    /\ UNCHANGED lifeVars

(***************************************************************************)
(* ProposeReplicate and the waiter.                                        *)
(***************************************************************************)
\* A wait that drops the delivered error.
WaitDropsError(v) == "nil"

\* wait, lines 1071-1075: the delivered value is returned, nil for nil.
WaitResult(v) == IF v # "nil" THEN v ELSE "nil"

\* ProposeReplicate, lines 316-318: the test of the started flag.
PrCall(p) ==
    /\ pr[p].pc = "idle"
    /\ pr' = IF started
             THEN [pr EXCEPT ![p].pc = "add"]
             ELSE [pr EXCEPT ![p].pc = "done", ![p].ret = "ErrStopped"]
    /\ UNCHANGED <<engVars, core, pc, rd, prevIndex, ci, fr, wr, rm, bus, gh>>
    /\ UNCHANGED lifeVars

\* ProposeReplicate, lines 320-327: propwg.Add(1), the change id from the
\* generator and the Replicate around the caller's data.
PrAdd(p) ==
    /\ pr[p].pc = "add"
    /\ propwg' = propwg + 1
    /\ pr' = [pr EXCEPT ![p].pc = "propose", ![p].data = DataOf(p),
                        ![p].cid = IdBase + core.idgen]
    /\ core' = [core EXCEPT !.idgen = @ + 1]
    /\ UNCHANGED <<engVars, pc, rd, prevIndex, ci, fr, wr, rm, bus, gh>>
    /\ UNCHANGED callVars

\* ProposeReplicate, lines 335-337: node.Propose returns.  The core takes a
\* proposal, or drops it with an error, only while it knows a leader; with
\* none the call stays blocked until a context is done or the node stops.
PrPropose(p) ==
    /\ pr[p].pc = "propose"
    /\ core.soft.lead # None
    /\ \/ /\ pr' = [pr EXCEPT ![p].pc = "subscribe"]
          /\ core' = [core EXCEPT !.pending = @ \cup {p}]
          /\ propwg' = propwg
       \/ /\ pr' = [pr EXCEPT ![p].pc = "done", ![p].ret = "err"]
          /\ core' = core
          /\ propwg' = propwg - 1
    /\ UNCHANGED <<engVars, pc, rd, prevIndex, ci, fr, wr, rm, bus, gh>>
    /\ UNCHANGED callVars

\* wait, line 1067: SubscribeOnce(id).
PrSubscribe(p) ==
    /\ pr[p].pc = "subscribe"
    /\ bus' = BusSubscribe(bus, pr[p].cid, p)
    /\ pr' = [pr EXCEPT ![p].pc = "select"]
    /\ UNCHANGED <<engVars, core, pc, rd, prevIndex, ci, fr, wr, rm, gh>>
    /\ UNCHANGED lifeVars

\* wait, lines 1071-1075: a value arrived on the subscription.
PrRecv(p) ==
    /\ pr[p].pc = "select"
    /\ bus.box[p] # <<>>
    /\ pr' = [pr EXCEPT ![p].pc = "done", ![p].ret = WaitResult(bus.box[p][1])]
    /\ bus' = BusUnsubscribe(bus, p)
    /\ propwg' = propwg - 1
    /\ UNCHANGED <<engVars, core, pc, rd, prevIndex, ci, fr, wr, rm, gh>>
    /\ UNCHANGED callVars

\* node.Propose, line 335, and wait, lines 1076-1077: the caller's context
\* is done.
PrCancel(p) ==
    /\ pr[p].pc \in {"propose", "select"}
    /\ pr' = [pr EXCEPT ![p].pc = "done", ![p].ret = "ctx"]
    /\ bus' = BusUnsubscribe(bus, p)
    /\ propwg' = propwg - 1
    /\ UNCHANGED <<engVars, core, pc, rd, prevIndex, ci, fr, wr, rm, gh>>
    /\ UNCHANGED callVars

\* The protocol core after node.Stop, the sixth function of a Shutdown.
NodeStopped ==
    \E c \in Stoppers : \E k \in 1 .. Len(sd[c].log) : sd[c].log[k] = "node.Stop"

\* wait, lines 1078-1079: the engine context is done; node.Propose, line
\* 335: the node has stopped.
PrStopped(p) ==
    /\ \/ pr[p].pc = "select" /\ ctxDone.eng
       \/ pr[p].pc = "propose" /\ NodeStopped
    /\ pr' = [pr EXCEPT ![p].pc = "done", ![p].ret = "ErrStopped"]
    /\ bus' = BusUnsubscribe(bus, p)
    /\ propwg' = propwg - 1
    /\ UNCHANGED <<engVars, core, pc, rd, prevIndex, ci, fr, wr, rm, gh>>
    /\ UNCHANGED callVars

(***************************************************************************)
(* LinearizableRead.                                                       *)
(***************************************************************************)
\* A test that takes a node one entry behind for up to date.
ReadUpToDateLoose(index, applied) == index <= applied + 1

\* LinearizableRead, line 156: the node is up to date with the read index.
ReadUpToDate(index, applied) == index <= applied

\* LinearizableRead, lines 112-114: the test of the started flag.
RdCall(p) ==
    /\ pr[p].pc = "idle"
    /\ pr' = IF started
             THEN [pr EXCEPT ![p].pc = "radd", ![p].read = TRUE]
             ELSE [pr EXCEPT ![p].pc = "done", ![p].read = TRUE, ![p].ret = "ErrStopped"]
    /\ UNCHANGED <<engVars, core, pc, rd, prevIndex, ci, fr, wr, rm, bus, gh>>
    /\ UNCHANGED lifeVars

\* LinearizableRead, lines 116-125: propwg.Add(1), the request id from the
\* generator and SubscribeOnce(id).
RdAdd(p) ==
    /\ pr[p].pc = "radd"
    /\ propwg' = propwg + 1
    /\ pr' = [pr EXCEPT ![p].pc = "readIndex", ![p].cid = IdBase + core.idgen]
    /\ core' = [core EXCEPT !.idgen = @ + 1]
    /\ bus' = BusSubscribe(bus, IdBase + core.idgen, p)
    /\ UNCHANGED <<engVars, pc, rd, prevIndex, ci, fr, wr, rm, gh>>
    /\ UNCHANGED callVars

\* LinearizableRead, lines 131-135: node.ReadIndex hands the request to the
\* core, which keeps it when it knows a leader and drops it otherwise.
RdReadIndex(p) ==
    /\ pr[p].pc = "readIndex"
    /\ pr' = [pr EXCEPT ![p].pc = "rselect"]
    /\ core' = IF core.soft.lead # None THEN [core EXCEPT !.reads = @ \cup {p}] ELSE core
    /\ UNCHANGED <<engVars, pc, rd, prevIndex, ci, fr, wr, rm, bus, gh>>
    /\ UNCHANGED lifeVars

\* LinearizableRead, line 138: the ticker fires and the request is sent again.
RdTick(p) ==
    /\ pr[p].pc = "rselect"
    /\ pr' = [pr EXCEPT ![p].pc = "readIndex"]
    /\ UNCHANGED <<engVars, core, pc, rd, prevIndex, ci, fr, wr, rm, bus, gh>>
    /\ UNCHANGED lifeVars

\* LinearizableRead, lines 139-143 and 151-153: a value arrived for the
\* request: an error is returned, an index is kept.
RdRecvIndex(p) ==
    /\ pr[p].pc = "rselect"
    /\ bus.box[p] # <<>>
    /\ bus' = BusUnsubscribe(bus, p)
    /\ IF IsIndexValue(bus.box[p][1])
       THEN /\ pr' = [pr EXCEPT ![p].pc = "cmp", ![p].index = ValueIndex(bus.box[p][1])]
            /\ propwg' = propwg
       ELSE /\ pr' = [pr EXCEPT ![p].pc = "done", ![p].ret = bus.box[p][1]]
            /\ propwg' = propwg - 1
    /\ UNCHANGED <<engVars, core, pc, rd, prevIndex, ci, fr, wr, rm, gh>>
    /\ UNCHANGED callVars

\* LinearizableRead, lines 155-158: nil when the read index is applied.
RdCompare(p) ==
    /\ pr[p].pc = "cmp"
    /\ IF ReadUpToDate(pr[p].index, appliedIndex)
       THEN /\ pr' = [pr EXCEPT ![p].pc = "done", ![p].ret = "nil"]
            /\ propwg' = propwg - 1
       ELSE /\ pr' = [pr EXCEPT ![p].pc = "wsub"]
            /\ propwg' = propwg
    /\ UNCHANGED <<engVars, core, pc, rd, prevIndex, ci, fr, wr, rm, bus, gh>>
    /\ UNCHANGED callVars

\* wait, line 1067, called with the read index: SubscribeOnce(index).
RdWaitSub(p) ==
    /\ pr[p].pc = "wsub"
    /\ bus' = BusSubscribe(bus, pr[p].index, p)
    /\ pr' = [pr EXCEPT ![p].pc = "wselect"]
    /\ UNCHANGED <<engVars, core, pc, rd, prevIndex, ci, fr, wr, rm, gh>>
    /\ UNCHANGED lifeVars

\* wait, lines 1071-1075: a value arrived for the index.
RdWaitRecv(p) ==
    /\ pr[p].pc = "wselect"
    /\ bus.box[p] # <<>>
    /\ pr' = [pr EXCEPT ![p].pc = "done", ![p].ret = WaitResult(bus.box[p][1]),
                        ![p].waited = TRUE]
    /\ bus' = BusUnsubscribe(bus, p)
    /\ propwg' = propwg - 1
    /\ UNCHANGED <<engVars, core, pc, rd, prevIndex, ci, fr, wr, rm, gh>>
    /\ UNCHANGED callVars

(***************************************************************************)
(* The lifecycle: the contexts, Shutdown and its guard goroutine.          *)
(***************************************************************************)
\* The context given to Start is cancelled by the program; eng.ctx, derived
\* from it at line 411, is done with it.
StartCtxDone ==
    /\ ~ctxDone.start
    /\ ctxDone' = [start |-> TRUE, eng |-> TRUE]
    /\ UNCHANGED <<engVars, core, pc, rd, prevIndex, ci, fr, wr, rm, bus, pr, gh>>
    /\ UNCHANGED <<pm, statec, disk, started, propwg, sd, chans, procs, pu, api>>

\* eventLoop, lines 443-444: the engine context is done and the loop, between
\* two Ready cycles, returns ErrStopped.
EvStop ==
    /\ pc = "idle"
    /\ ctxDone.eng
    /\ pc' = "stopped"
    /\ gh' = Fails(gh, "ctx", {})
    /\ UNCHANGED <<engVars, core, rd, prevIndex, ci, fr, wr, rm, bus, pr>>
    /\ UNCHANGED lifeVars

\* A Shutdown that cancels the engine context before it waits for anything.
FnsCancelFirst ==
    <<"cancel", "propwg.Wait", "closeIngress", "wg.Wait", "closeSnapshotc",
      "node.Stop", "msgbus.Close", "pool.TearDown">>

\* Shutdown, lines 253-269: the teardown functions in the order of the slice.
Fns ==
    <<"propwg.Wait", "closeIngress", "cancel", "wg.Wait", "closeSnapshotc",
      "node.Stop", "msgbus.Close", "pool.TearDown">>

\* A Shutdown that does not test the started flag.
UncheckedStop(c) == TRUE

\* Shutdown, lines 238-240: the call goes on only when started is set.
StartedAtStop(c) == started

\* Some Shutdown call has returned nil.
SomeStopDone == \E d \in Stoppers : sd[d].pc = "done" /\ sd[d].ret = "nil"

\* The calls are numbered in the order they are made.
NextStopper(c) == IF c = 1 THEN TRUE ELSE sd[c - 1].pc # "idle"

\* Shutdown, lines 238-240: ErrStopped unless started is set.  late notes a
\* call made after another Shutdown has returned nil.
SdCall(c) ==
    /\ sd[c].pc = "idle"
    /\ NextStopper(c)
    /\ sd' = IF StartedAtStop(c)
             THEN [sd EXCEPT ![c].pc = "unset", ![c].late = SomeStopDone]
             ELSE [sd EXCEPT ![c].pc = "done", ![c].ret = "ErrStopped",
                             ![c].late = SomeStopDone]
    /\ UNCHANGED <<engVars, core, pc, rd, prevIndex, ci, fr, wr, rm, bus, pr, gh>>
    /\ UNCHANGED <<pm, statec, disk, started, ctxDone, propwg, chans, procs, pu, api>>

\* Shutdown, lines 242-251: started.UnSet(), a step apart from the test, and
\* the start of the guard goroutine on a context derived from the caller's.
SdUnset(c) ==
    /\ sd[c].pc = "unset"
    /\ started' = FALSE
    /\ sd' = [sd EXCEPT ![c].pc = "run", ![c].i = 1, ![c].guard = "armed"]
    /\ UNCHANGED <<engVars, core, pc, rd, prevIndex, ci, fr, wr, rm, bus, pr, gh>>
    /\ UNCHANGED <<pm, statec, disk, ctxDone, propwg, chans, procs, pu, api>>

\* The context given to Shutdown expires while the teardown runs.
SdExpire(c) ==
    /\ sd[c].pc = "run"
    /\ ~sd[c].ctx
    /\ sd' = [sd EXCEPT ![c].ctx = TRUE]
    /\ UNCHANGED <<engVars, core, pc, rd, prevIndex, ci, fr, wr, rm, bus, pr, gh>>
    /\ UNCHANGED <<pm, statec, disk, started, ctxDone, propwg, chans, procs, pu, api>>

\* The guard goroutine, lines 248-251: its context is done (it expired, or
\* Shutdown returned and the deferred cancel ran) and it calls eng.cancel.
SdGuard(c) ==
    /\ sd[c].guard = "armed"
    /\ sd[c].ctx
    /\ ctxDone' = [ctxDone EXCEPT !.eng = TRUE]
    /\ sd' = [sd EXCEPT ![c].guard = "fired"]
    /\ UNCHANGED <<engVars, core, pc, rd, prevIndex, ci, fr, wr, rm, bus, pr, gh>>
    /\ UNCHANGED <<pm, statec, disk, started, propwg, chans, procs, pu, api>>

\* Shutdown, lines 271-277: the function in hand returned nil; the loop takes
\* the next one, and after the last one Shutdown returns nil and the
\* deferred cancel ends the derived context.
StepDone(q, c) ==
    IF q[c].i = Len(Fns)
    THEN [q EXCEPT ![c].log = Append(@, Fns[q[c].i]), ![c].pc = "done",
                   ![c].ret = "nil", ![c].ctx = TRUE]
    ELSE [q EXCEPT ![c].log = Append(@, Fns[q[c].i]), ![c].i = @ + 1]

\* Shutdown, lines 272-274: the function in hand failed; Shutdown returns
\* its error.
StepFailed(q, c) ==
    [q EXCEPT ![c].pc = "done", ![c].ret = "err", ![c].ctx = TRUE]

\* The teardown function Shutdown call c is in.
InFn(c, f) == sd[c].pc = "run" /\ Fns[sd[c].i] = f

\* Shutdown, line 254: propwg.Wait returns when no call holds the group.
SdPropWait(c) ==
    /\ InFn(c, "propwg.Wait")
    /\ propwg = 0
    /\ sd' = StepDone(sd, c)
    /\ UNCHANGED <<engVars, core, pc, rd, prevIndex, ci, fr, wr, rm, bus, pr, gh>>
    /\ UNCHANGED <<pm, statec, disk, started, ctxDone, propwg, chans, procs, pu, api>>

\* Shutdown, lines 256-257: close(proposec) and close(msgc); closing a closed
\* channel panics.
SdCloseIngress(c) ==
    /\ InFn(c, "closeIngress")
    /\ ~sd[c].closing
    /\ IF chans.closed
       THEN /\ sd' = [sd EXCEPT ![c].pc = "panic"]
            /\ chans' = chans
       ELSE /\ sd' = [sd EXCEPT ![c].closing = TRUE]
            /\ chans' = [chans EXCEPT !.closed = TRUE]
    /\ UNCHANGED <<engVars, core, pc, rd, prevIndex, ci, fr, wr, rm, bus, pr, gh>>
    /\ UNCHANGED <<pm, statec, disk, started, ctxDone, propwg, procs, pu, api>>

\* Shutdown, line 258: processwg.Wait returns when both process goroutines
\* have returned.
SdProcWait(c) ==
    /\ InFn(c, "closeIngress")
    /\ sd[c].closing
    /\ \A k \in Chans : procs[k] = "exited"
    /\ sd' = StepDone([sd EXCEPT ![c].closing = FALSE], c)
    /\ UNCHANGED <<engVars, core, pc, rd, prevIndex, ci, fr, wr, rm, bus, pr, gh>>
    /\ UNCHANGED <<pm, statec, disk, started, ctxDone, propwg, chans, procs, pu, api>>

\* Shutdown, line 260: eng.cancel.
SdCancel(c) ==
    /\ InFn(c, "cancel")
    /\ ctxDone' = [ctxDone EXCEPT !.eng = TRUE]
    /\ sd' = StepDone(sd, c)
    /\ UNCHANGED <<engVars, core, pc, rd, prevIndex, ci, fr, wr, rm, bus, pr, gh>>
    /\ UNCHANGED <<pm, statec, disk, started, propwg, chans, procs, pu, api>>

\* eng.wg is free: the event loop has returned (line 427), no snapshot writer
\* runs (line 1050) and no removal goroutine is pending (line 780).
WgFree ==
    /\ pc = "stopped"
    /\ \A w \in Writers : wr[w].pc = "free"
    /\ rm = {}

\* Shutdown, line 261: wg.Wait.
SdWgWait(c) ==
    /\ InFn(c, "wg.Wait")
    /\ WgFree
    /\ sd' = StepDone(sd, c)
    /\ UNCHANGED <<engVars, core, pc, rd, prevIndex, ci, fr, wr, rm, bus, pr, gh>>
    /\ UNCHANGED <<pm, statec, disk, started, ctxDone, propwg, chans, procs, pu, api>>

\* Some Shutdown call has finished teardown function f.
Finished(f) ==
    \E d \in Stoppers : \E k \in 1 .. Len(sd[d].log) : sd[d].log[k] = f

\* Shutdown, line 262: close(snapshotc); closing a closed channel panics.
SdCloseSnapshotc(c) ==
    /\ InFn(c, "closeSnapshotc")
    /\ sd' = IF Finished("closeSnapshotc")
             THEN [sd EXCEPT ![c].pc = "panic"]
             ELSE StepDone(sd, c)
    /\ UNCHANGED <<engVars, core, pc, rd, prevIndex, ci, fr, wr, rm, bus, pr, gh>>
    /\ UNCHANGED <<pm, statec, disk, started, ctxDone, propwg, chans, procs, pu, api>>

\* Shutdown, line 263: node.Stop.
SdNodeStop(c) ==
    /\ InFn(c, "node.Stop")
    /\ sd' = StepDone(sd, c)
    /\ UNCHANGED <<engVars, core, pc, rd, prevIndex, ci, fr, wr, rm, bus, pr, gh>>
    /\ UNCHANGED <<pm, statec, disk, started, ctxDone, propwg, chans, procs, pu, api>>

\* Shutdown, lines 264-268: msgbus.Close and pool.TearDown, the two
\* functions that may return an error.
SdClose(c) ==
    /\ InFn(c, "msgbus.Close") \/ InFn(c, "pool.TearDown")
    /\ \/ sd' = StepDone(sd, c)
       \/ sd' = StepFailed(sd, c)
    /\ UNCHANGED <<engVars, core, pc, rd, prevIndex, ci, fr, wr, rm, bus, pr, gh>>
    /\ UNCHANGED <<pm, statec, disk, started, ctxDone, propwg, chans, procs, pu, api>>

(***************************************************************************)
(* The ingress: Push and the two process goroutines.                       *)
(***************************************************************************)
\* process, lines 807-810: a message is taken off the channel; the goroutine
\* returns when the context given to Start is done.
ProcRecv(k) ==
    /\ procs[k] = "range"
    /\ chans.len[k] > 0
    /\ chans' = [chans EXCEPT !.len[k] = @ - 1]
    /\ procs' = [procs EXCEPT ![k] = IF ctxDone.start THEN "exited" ELSE "step"]
    /\ UNCHANGED <<engVars, core, pc, rd, prevIndex, ci, fr, wr, rm, bus, pr, gh>>
    /\ UNCHANGED <<pm, statec, disk, started, ctxDone, propwg, sd, pu, api>>

\* process, lines 812-814: node.Step returns and its error is logged.  A
\* proposal is stepped only while the core knows a leader; with none the call
\* stays blocked until the context given to Start is done or the node stops.
ProcStep(k) ==
    /\ procs[k] = "step"
    /\ k = "proposec" => (core.soft.lead # None \/ ctxDone.start \/ NodeStopped)
    /\ procs' = [procs EXCEPT ![k] = "range"]
    /\ UNCHANGED <<engVars, core, pc, rd, prevIndex, ci, fr, wr, rm, bus, pr, gh>>
    /\ UNCHANGED <<pm, statec, disk, started, ctxDone, propwg, sd, chans, pu, api>>

\* A process goroutine that returns as soon as its channel is closed.
ProcExitEarly(k) ==
    /\ procs[k] = "range"
    /\ chans.closed
    /\ procs' = [procs EXCEPT ![k] = "exited"]
    /\ UNCHANGED <<engVars, core, pc, rd, prevIndex, ci, fr, wr, rm, bus, pr, gh>>
    /\ UNCHANGED <<pm, statec, disk, started, ctxDone, propwg, sd, chans, pu, api>>

\* process, line 807: the channel is closed and empty, the range ends.
ProcExit(k) ==
    /\ procs[k] = "range"
    /\ chans.len[k] = 0
    /\ chans.closed
    /\ procs' = [procs EXCEPT ![k] = "exited"]
    /\ UNCHANGED <<engVars, core, pc, rd, prevIndex, ci, fr, wr, rm, bus, pr, gh>>
    /\ UNCHANGED <<pm, statec, disk, started, ctxDone, propwg, sd, chans, pu, api>>

\* The types of the messages pushed: a proposal and any other message.
MsgTypes == {"MsgProp", "MsgApp"}

\* A Push that puts every message on the message channel.
ChanAlwaysMsgc(type) == "msgc"

\* Push, lines 211-214: the channel for a message type.
ChanOf(type) == IF type = "MsgProp" THEN "proposec" ELSE "msgc"

\* The calls are numbered in the order they are made.
NextPusher(c) == IF c = 1 THEN TRUE ELSE pu[c - 1].pc # "idle"

\* Push, lines 199-201: ErrStopped unless started is set.
PuCall(c) ==
    /\ pu[c].pc = "idle"
    /\ NextPusher(c)
    /\ \E t \in MsgTypes :
          pu' = IF started
                THEN [pu EXCEPT ![c].pc = "add", ![c].type = t]
                ELSE [pu EXCEPT ![c].pc = "done", ![c].type = t, ![c].ret = "ErrStopped"]
    /\ UNCHANGED <<engVars, core, pc, rd, prevIndex, ci, fr, wr, rm, bus, pr, gh>>
    /\ UNCHANGED <<pm, statec, disk, started, ctxDone, propwg, sd, chans, procs, api>>

\* Push, lines 203-208: propwg.Add(1), and the error of a done engine
\* context, returned after the deferred propwg.Done.
PuAdd(c) ==
    /\ pu[c].pc = "add"
    /\ IF ctxDone.eng
       THEN /\ pu' = [pu EXCEPT ![c].pc = "done", ![c].ret = "ctx"]
            /\ propwg' = propwg
       ELSE /\ pu' = [pu EXCEPT ![c].pc = "select"]
            /\ propwg' = propwg + 1
    /\ UNCHANGED <<engVars, core, pc, rd, prevIndex, ci, fr, wr, rm, bus, pr, gh>>
    /\ UNCHANGED <<pm, statec, disk, started, ctxDone, sd, chans, procs, api>>

\* Push, lines 216-224: the select.  A send on a closed channel panics; else
\* the send is ready when the channel has room and the context case is ready
\* when eng.ctx is done; one ready case is taken, the default when none is.
PuSelect(c) ==
    /\ pu[c].pc = "select"
    /\ LET k == ChanOf(pu[c].type)
           room == chans.len[k] < MaxQueue
       IN IF chans.closed
          THEN /\ pu' = [pu EXCEPT ![c].pc = "panic"]
               /\ chans' = chans
          ELSE \/ /\ room
                  /\ chans' = [chans EXCEPT !.len[k] = @ + 1]
                  /\ pu' = [pu EXCEPT ![c].pc = "done", ![c].ret = "nil"]
               \/ /\ ctxDone.eng
                  /\ chans' = chans
                  /\ pu' = [pu EXCEPT ![c].pc = "done", ![c].ret = "ctx"]
               \/ /\ ~room
                  /\ ~ctxDone.eng
                  /\ chans' = chans
                  /\ pu' = [pu EXCEPT ![c].pc = "done", ![c].ret = "full"]
    /\ propwg' = propwg - 1
    /\ UNCHANGED <<engVars, core, pc, rd, prevIndex, ci, fr, wr, rm, bus, pr, gh>>
    /\ UNCHANGED <<pm, statec, disk, started, ctxDone, sd, procs, api>>

(***************************************************************************)
(* The public operations that are one step here.                           *)
(***************************************************************************)
SimpleOps == {"LinearizableRead", "TransferLeadership", "Status",
              "ProposeConfChange", "ForgetLeader", "CreateSnapshot"}

\* Lines 111-388: the operations that begin with the test of started;
\* ForgetLeader (361-363) calls the node at once.
TestsStarted(op) == op # "ForgetLeader"

\* A call of one of these operations: ErrStopped when it tests started and
\* started is unset; else it calls into the protocol core (api.core) and
\* returns what comes of that call ("node").
ApiCall(op) ==
    /\ api' = IF TestsStarted(op) /\ ~started
              THEN [NoCall EXCEPT !.op = op, !.ret = "ErrStopped", !.started = started]
              ELSE [NoCall EXCEPT !.op = op, !.ret = "node", !.core = TRUE,
                                  !.started = started]
    /\ UNCHANGED <<engVars, core, pc, rd, prevIndex, ci, fr, wr, rm, bus, pr, gh>>
    /\ UNCHANGED <<pm, statec, disk, started, ctxDone, propwg, sd, chans, procs, pu>>

(***************************************************************************)
(* The public CreateSnapshot and the event loop's answer.  api.a and api.p *)
(* are the indices the call read, api.created whether createSnapshot was   *)
(* called for its request.                                                 *)
(***************************************************************************)
\* CreateSnapshot, lines 367-371: the test of started and appliedIndex.Get.
SnCall ==
    /\ api.op = "none"
    /\ api' = IF started
              THEN [NoCall EXCEPT !.op = "CreateSnapshot", !.pc = "readS", !.a = appliedIndex]
              ELSE [NoCall EXCEPT !.op = "CreateSnapshot", !.pc = "done",
                                  !.ret = "ErrStopped", !.started = FALSE]
    /\ UNCHANGED <<engVars, core, pc, rd, prevIndex, ci, fr, wr, rm, bus, pr, gh>>
    /\ UNCHANGED <<pm, statec, disk, started, ctxDone, propwg, sd, chans, procs, pu>>

\* CreateSnapshot, lines 372-378: snapIndex.Get; with equal indices the
\* call returns storage.Snapshot() at once.
SnReadS ==
    /\ api.pc = "readS"
    /\ api' = IF api.a = snapIndex
              THEN [api EXCEPT !.pc = "done", !.p = snapIndex, !.ret = "Snapshot"]
              ELSE [api EXCEPT !.pc = "send", !.p = snapIndex]
    /\ UNCHANGED <<engVars, core, pc, rd, prevIndex, ci, fr, wr, rm, bus, pr, gh>>
    /\ UNCHANGED <<pm, statec, disk, started, ctxDone, propwg, sd, chans, procs, pu>>

\* CreateSnapshot, line 381, and eventLoop, lines 440-442: the loop, in its
\* select, takes the request off the unbuffered snapshotc and answers it
\* with nil; the call of createSnapshot at line 441 is a comment.
EvSnapshotc ==
    /\ pc = "idle"
    /\ api.pc = "send"
    /\ api' = [api EXCEPT !.pc = "answered", !.ret = "nil"]
    /\ UNCHANGED <<engVars, core, pc, rd, prevIndex, ci, fr, wr, rm, bus, pr, gh>>
    /\ UNCHANGED <<pm, statec, disk, started, ctxDone, propwg, sd, chans, procs, pu>>

\* CreateSnapshot, lines 382-387: the answer is an error, which is
\* returned, or nil, and storage.Snapshot() is returned.
SnReturn ==
    /\ api.pc = "answered"
    /\ api' = [api EXCEPT !.pc = "done",
                          !.ret = IF api.ret = "nil" THEN "Snapshot" ELSE api.ret]
    /\ UNCHANGED <<engVars, core, pc, rd, prevIndex, ci, fr, wr, rm, bus, pr, gh>>
    /\ UNCHANGED <<pm, statec, disk, started, ctxDone, propwg, sd, chans, procs, pu>>

(***************************************************************************)
(* The specification of the engine in service: the event loop, its send    *)
(* and snapshot goroutines and the proposers, for every input of the core. *)
(* The timed removal goroutines, the readers and the lifecycle have their  *)
(* own specifications below.                                               *)
(***************************************************************************)
\* The steps of do every Ready cycle takes.
Cycle ==
    \/ EvReady \/ DoSave \/ DoPubSnap
    \/ DoCommit \/ DoSetApplied \/ DoBcast
    \/ DoMaybeSnap \/ DoAdvance

\* publishSnapshotFile, for a Ready that carries a snapshot.
Installs == PsfRestore \/ PsfSnap \/ PsfApplied

\* maybeCreateSnapshot past its distance gate.
Triggers == DoMaybeSnap2 \/ DoMaybeSnapRet

Snapshots ==
    \/ \E t \in Threads : CsReadA(t) \/ CsReadS(t) \/ CsCheck(t) \/ CsSet(t) \/ CsRun(t)
    \/ \E w \in Writers : WrPersist(w) \/ WrCompact(w) \/ WrUnset(w) \/ WrRewind(w)

Returns == \E t \in Threads : SendEnd(t)

Dispatch ==
    \/ \E t \in Threads : SendMsg(t) \/ SendForced(t)
    \/ Returns
    \/ DoWaitSend

Removals == RmTick \/ \E m \in Members : RemoveMember(m)

Proposals ==
    \E p \in Proposers :
       PrCall(p) \/ PrAdd(p) \/ PrPropose(p) \/ PrSubscribe(p) \/ PrRecv(p) \/ PrCancel(p)

Next == Cycle \/ Installs \/ Triggers \/ Snapshots \/ Dispatch \/ Proposals

Spec == Init /\ [][Next]_vars

(***************************************************************************)
(* The Ready cycle with its dispatch: the core moves between every soft    *)
(* state and emits messages, forced snapshots included; its entries are    *)
(* plain, it delivers no snapshot and the snapshot interval is out of      *)
(* reach.                                                                  *)
(***************************************************************************)
OrderEnv == [FullEnv EXCEPT !.snaps = FALSE, !.types = {"Normal"}, !.interval = Wrap - 1]

InitOrder == InitWith(OrderEnv)

NextOrder == Cycle \/ Snapshots \/ Dispatch

SpecOrder == InitOrder /\ [][NextOrder]_vars

(***************************************************************************)
(* The publisher: a follower that commits entries of every type, emits no  *)
(* message and, with the snapshot interval out of reach, creates no        *)
(* snapshot.                                                               *)
(***************************************************************************)
ApplyEnv == [softs |-> {}, snaps |-> FALSE, types |-> EntryTypes, msgs |-> 0,
             interval |-> Wrap - 1]

InitApply == InitWith(ApplyEnv)

NextApply == Cycle \/ Returns \/ Removals

SpecApply == InitApply /\ [][NextApply]_vars

(***************************************************************************)
(* The callers: ProposeReplicate against a follower that may lose and find *)
(* its leader and commits plain entries.                                   *)
(***************************************************************************)
ProposeEnv == [ApplyEnv EXCEPT !.softs = {x \in SoftStates : ~IsLeader(x)},
                               !.types = {"Normal"}]

InitPropose == InitWith(ProposeEnv)

NextPropose == Cycle \/ Returns \/ Proposals

SpecPropose == InitPropose /\ [][NextPropose]_vars

(***************************************************************************)
(* The snapshots: a follower that installs the snapshots its leader sends  *)
(* and creates its own every SnapInterval entries.                         *)
(***************************************************************************)
SnapEnv == [softs |-> {}, snaps |-> TRUE, types |-> {"Normal"}, msgs |-> 0,
            interval |-> SnapInterval]

InitSnap == InitWith(SnapEnv)

NextSnap == Cycle \/ Installs \/ Triggers \/ Snapshots \/ Returns

SpecSnap == InitSnap /\ [][NextSnap]_vars

\* The scheduler runs every runnable goroutine: a createSnapshot call past
\* the setting of its flag and a started writer take their next step.
FairSnap ==
    /\ \A t \in Threads : WF_vars(CsRun(t))
    /\ \A w \in Writers :
          /\ WF_vars(WrPersist(w))
          /\ WF_vars(WrCompact(w))
          /\ WF_vars(WrUnset(w))
          /\ WF_vars(WrRewind(w))

SpecSnapFair == SpecSnap /\ FairSnap

(***************************************************************************)
(* LinearizableRead on a node that learns of its leader and keeps it: the  *)
(* callers next to the Ready cycles that publish read states and applied   *)
(* indices.  No context is cancelled.                                     *)
(***************************************************************************)
ReadEnv == [softs |-> {[lead |-> Peer, state |-> "Follower"]}, snaps |-> FALSE,
            types |-> {"Normal"}, msgs |-> 0, interval |-> Wrap - 1]

InitRead == InitWith(ReadEnv)

Reads ==
    \E p \in Proposers :
       \/ RdCall(p) \/ RdAdd(p) \/ RdReadIndex(p) \/ RdTick(p)
       \/ RdRecvIndex(p) \/ RdCompare(p) \/ RdWaitSub(p) \/ RdWaitRecv(p)

NextRead == Cycle \/ Returns \/ DoReadState \/ Reads

SpecRead == InitRead /\ [][NextRead]_vars

\* The same under a scheduler that runs the event loop's cycle and every
\* caller that can take a step.
FairRead ==
    /\ WF_vars(DoSave) /\ WF_vars(DoPubSnap) /\ WF_vars(DoCommit)
    /\ WF_vars(DoSetApplied) /\ WF_vars(DoReadState) /\ WF_vars(DoBcast)
    /\ WF_vars(DoMaybeSnap) /\ WF_vars(Returns) /\ WF_vars(DoAdvance)
    /\ \A p \in Proposers :
          /\ WF_vars(RdRecvIndex(p)) /\ WF_vars(RdCompare(p))
          /\ WF_vars(RdWaitSub(p)) /\ WF_vars(RdWaitRecv(p))

SpecReadFair == SpecRead /\ FairRead

(***************************************************************************)
(* A public CreateSnapshot next to the Ready cycles of a node that does    *)
(* not reach its snapshot interval.                                        *)
(***************************************************************************)
InitCreate == InitWith(ReadEnv)

Requests == SnCall \/ SnReadS \/ EvSnapshotc \/ SnReturn

NextCreate == Cycle \/ Returns \/ Requests

SpecCreate == InitCreate /\ [][NextCreate]_vars

(***************************************************************************)
(* The same follower configured to snapshot after every applied entry, so  *)
(* that a writer is still at work when the leader's next snapshot arrives. *)
(***************************************************************************)
InstallEnv == [SnapEnv EXCEPT !.interval = 0]

InitInstall == InitWith(InstallEnv)

SpecInstall == InitInstall /\ [][NextSnap]_vars

(***************************************************************************)
(* Shutdown next to an idle event loop, calls blocked in node.Propose (the *)
(* core knows no leader and hands out nothing) and the two process         *)
(* goroutines on empty channels.                                           *)
(***************************************************************************)
\* The steps of the Shutdown calls and of their guard goroutines.
Stops ==
    \E c \in Stoppers :
       \/ SdCall(c) \/ SdUnset(c) \/ SdExpire(c) \/ SdGuard(c)
       \/ SdPropWait(c) \/ SdCloseIngress(c) \/ SdProcWait(c) \/ SdCancel(c)
       \/ SdWgWait(c) \/ SdCloseSnapshotc(c) \/ SdNodeStop(c) \/ SdClose(c)

\* The ProposeReplicate calls a core without a leader lets through.
Blocked ==
    \E p \in Proposers : PrCall(p) \/ PrAdd(p) \/ PrCancel(p) \/ PrStopped(p)

Exits == \E k \in Chans : ProcExit(k)

InitShut == InitWith(ApplyEnv)

NextShut == Stops \/ EvStop \/ Exits \/ Blocked

SpecShut == InitShut /\ [][NextShut]_vars

\* The same under the scheduler's fairness: a goroutine that can take its
\* next step takes it.  Left to the program and to the protocol core are
\* the calls themselves (SdCall, PrCall), the expiry of the callers'
\* contexts (SdExpire, PrCancel) and the election of a leader.
FairShut ==
    /\ WF_vars(EvStop)
    /\ \A c \in Stoppers :
          WF_vars(SdUnset(c) \/ SdGuard(c) \/ SdPropWait(c) \/ SdCloseIngress(c)
                    \/ SdProcWait(c) \/ SdCancel(c) \/ SdWgWait(c)
                    \/ SdCloseSnapshotc(c) \/ SdNodeStop(c) \/ SdClose(c))
    /\ \A k \in Chans : WF_vars(ProcExit(k))
    /\ \A p \in Proposers : WF_vars(PrAdd(p) \/ PrStopped(p))

SpecShutFair == SpecShut /\ FairShut


(***************************************************************************)
(* Push and the process goroutines of an engine that is not shut down;     *)
(* the program may cancel the context it gave to Start.                    *)
(***************************************************************************)
Pushes == \E c \in Pushers : PuCall(c) \/ PuAdd(c) \/ PuSelect(c)

Steps == \E k \in Chans : ProcRecv(k) \/ ProcStep(k)

InitPush == InitWith(ApplyEnv)

NextPush == Pushes \/ Steps \/ StartCtxDone

SpecPush == InitPush /\ [][NextPush]_vars

(***************************************************************************)
(* The public operations called before, while and after Shutdown runs.     *)
(***************************************************************************)
Calls == \E op \in SimpleOps : ApiCall(op)

\* The test of started that opens ProposeReplicate and Push.
Entries == (\E p \in Proposers : PrCall(p)) \/ (\E c \in Pushers : PuCall(c))

InitCalls == InitWith(ApplyEnv)

NextCalls == Stops \/ EvStop \/ Exits \/ Calls \/ Entries

SpecCalls == InitCalls /\ [][NextCalls]_vars

(***************************************************************************)
(* Conf changes that remove a member, next to Shutdown calls and to the    *)
(* cancellation of the context given to Start.                             *)
(***************************************************************************)
RemoveEnv == [ApplyEnv EXCEPT !.types = {"ConfChange"}]

InitRemove == InitWith(RemoveEnv)

Leaves == \E m \in Members : RmCancel(m)

\* Shutdown, with a context that does not expire, as far as the
\* cancellation of the engine context.
Cancels ==
    \E c \in Stoppers :
       \/ SdCall(c) \/ SdUnset(c) \/ SdPropWait(c)
       \/ SdCloseIngress(c) \/ SdProcWait(c) \/ SdCancel(c)

NextRemove == Cycle \/ Returns \/ Removals \/ Leaves \/ Cancels \/ EvStop \/ Exits \/ StartCtxDone

SpecRemove == InitRemove /\ [][NextRemove]_vars




(***************************************************************************)
(* Properties of the Ready cycle.                                          *)
(***************************************************************************)
\* C1, as stated: in a Ready cycle nothing is applied to the state machine
\* and nothing at all is broadcast on the message bus before SaveEntries of
\* that cycle has returned successfully.
C1_NothingBeforeSave == gh.pre \cap {"apply", "bcastId", "bcastAll"} = {}

\* C1, amended: in a Ready cycle no committed entry is applied and no reply
\* to an id (a proposal's result, a conf change's result, an applied index)
\* is broadcast before SaveEntries of that cycle has returned successfully;
\* the ErrNoLeader broadcast to all waiters of a leaderless soft state is not
\* held back.
C1_SaveBeforeApply == gh.pre \cap {"apply", "bcastId"} = {}

\* A cycle that broadcast ErrNoLeader before its save and, after the save,
\* has applied a committed entry and broadcast its result.
C1_Witness ==
    /\ pc = "setApplied"
    /\ gh.saved
    /\ gh.cur.applied = 1
    /\ gh.pre = {"bcastAll"}

\* C2: a cycle in which the node is not leader sends or steps none of its
\* messages before SaveEntries has returned successfully, and eng.leader is
\* the role of the soft state the core last reported, the Ready's own when
\* it carries one.
C2_FollowerSendsAfterSave ==
    /\ "send" \notin gh.pre
    /\ leader = IsLeader(core.soft)
    /\ (pc \notin {"idle", "stopped"} /\ rd.soft # NoSoft) => leader = IsLeader(rd.soft)

\* A follower's cycle whose Ready carried a soft state and which, after its
\* save, has sent a message.
C2_Witness ==
    /\ pc = "sending"
    /\ ~leader
    /\ rd.soft # NoSoft
    /\ gh.saved
    /\ fr["ev"].mi > 0

\* C3: node.Advance is called only when the cycle's save has returned, all
\* of its committed entries are published, no send or createSnapshot of the
\* cycle is still running on the event loop or in the leader's goroutine;
\* and at most one Ready is taken and not yet advanced.
C3_AdvanceLast ==
    /\ pc = "advance" =>
          /\ gh.saved
          /\ ci = rd.n
          /\ fr["ev"] = IdleFrame
          /\ fr["snd"].spc \in {"off", "done"}
          /\ fr["snd"].mi = fr["snd"].nm
    /\ gh.unadv <= 1
    /\ pc = "idle" => gh.unadv = 0

\* The leader about to call Advance in its second cycle, its concurrent
\* send having dispatched a message and the cycle having published an entry.
C3_Witness ==
    /\ pc = "advance"
    /\ leader
    /\ core.nready = 2
    /\ fr["snd"].spc = "done"
    /\ fr["snd"].nm > 0
    /\ rd.n > 0

(***************************************************************************)
(* Properties of the publisher.                                            *)
(***************************************************************************)
\* C4, as stated: entries are handled in ascending order, appliedIndex is
\* set to the index of each entry, the next of the log, after it is handled
\* and whatever its type or fate, and for a normal entry with data that
\* happens only after Apply for that entry has returned.
C4_AppliedAfterApply ==
    /\ [][pc = "setApplied" /\ pc' # pc =>
             /\ appliedIndex' = gh.cur.idx
             /\ appliedIndex' = appliedIndex + 1
             /\ ci' = ci + 1]_vars
    /\ [](pc = "setApplied" /\ gh.cur.type = "Normal" /\ gh.cur.data
             => gh.cur.applied = 1)

\* C4, amended: entries are handled in ascending order, appliedIndex is set
\* to each entry's index after it is handled, and for a normal entry whose
\* data decodes that happens only after Apply for that entry has returned;
\* for data that does not decode Apply is never called.
C4_AppliedAfterDecodedApply ==
    /\ [][pc = "setApplied" /\ pc' # pc =>
             /\ appliedIndex' = gh.cur.idx
             /\ appliedIndex' = appliedIndex + 1
             /\ ci' = ci + 1]_vars
    /\ [](pc = "setApplied" /\ gh.cur.type = "Normal" /\ gh.cur.data
             => gh.cur.applied = (IF gh.cur.decoded THEN 1 ELSE 0))

\* The second entry of a Ready, a normal entry whose data does not decode,
\* handled and about to become the applied index.
C4_Witness ==
    /\ pc = "setApplied"
    /\ ci = 1
    /\ gh.cur.type = "Normal"
    /\ gh.cur.data
    /\ ~gh.cur.decoded
    /\ gh.cur.idx = 2

\* C10: when publishConfChange has handled a committed entry whose
\* ConfChange decodes, ApplyConfChange has been called once with it and
\* confState is its result, whatever the change's member payload.
C10_ConfChangeForwarded ==
    (pc = "setApplied" /\ gh.cur.type = "ConfChange" /\ gh.cur.decoded)
        => (gh.cur.acc = 1 /\ confState = gh.cur.conf)

(***************************************************************************)
(* Properties of the indices and of snapshot creation.                     *)
(***************************************************************************)
\* C5: in every state, the intermediate ones of publishSnapshotFile and of
\* the background writer included, appliedIndex is at least snapIndex.
C5_AppliedCoversSnapshot == appliedIndex >= snapIndex

\* C6: no step of the engine, be it a snapshot install, a committed entry
\* or a snapshot creation, decreases appliedIndex.
C6_AppliedMonotonic == [][appliedIndex' >= appliedIndex]_vars

\* A Ready whose snapshot is not ahead of a positive applied index was
\* rejected by publishSnapshot, and the applied index stayed.
C6_Witness ==
    /\ pc = "stopped"
    /\ rd.snap > 0
    /\ rd.snap <= appliedIndex
    /\ appliedIndex > 0

\* C7: at most one snapshot creation is in flight: createSnapshot calls past
\* the setting of the flag, and writers that have not cleared it, together.
C7_OneCreation ==
    Cardinality({t \in Threads : fr[t].cpc = "run"})
      + Cardinality({w \in Writers : wr[w].pc \in {"persist", "compact", "unset"}}) <= 1

(***************************************************************************)
(* Properties of ProposeReplicate.                                         *)
(***************************************************************************)
\* C8: a ProposeReplicate that returned nil had Apply called for its change
\* id exactly once, with the data it proposed, and that Apply returned no
\* error.
C8_NilMeansApplied ==
    \A p \in Proposers :
        (pr[p].pc = "done" /\ pr[p].ret = "nil")
            => (pr[p].napply = 1 /\ pr[p].same /\ ~pr[p].aerr)

\* A ProposeReplicate that returned nil after its entry was applied.
C8_Witness ==
    \E p \in Proposers :
        /\ pr[p].pc = "done"
        /\ pr[p].ret = "nil"
        /\ pr[p].napply = 1

\* C9: once the entry of an accepted proposal is published, its result is
\* with the caller: the caller has returned or holds the value on its
\* subscription, without any cancellation.
C9_ResultReachesCaller ==
    \A p \in Proposers :
        pr[p].napply > 0 =>
            \/ pr[p].pc = "done"
            \/ pr[p].pc = "select" /\ bus.box[p] # <<>>

(***************************************************************************)
(* C17: the event loop terminates only on a persistence failure or on the  *)
(* cancellation of the engine context; a failing fsm.Restore leaves it     *)
(* running.  Every storage call (SaveEntries, SaveSnapshot, the read of    *)
(* the saved snapshot file, ApplySnapshot) counts as persistence here.     *)
(***************************************************************************)
C17_OnlyPersistenceStops ==
    pc = "stopped" =>
        gh.stop \in {"SaveEntries", "SaveSnapshot", "Read", "ApplySnapshot", "ctx"}

(***************************************************************************)
(* C19: when SaveEntries fails the event loop terminates with that error;  *)
(* in that cycle no snapshot is published, no committed entry is applied,  *)
(* appliedIndex is the one read at the start of the cycle, no broadcast to *)
(* an id is made, and node.Advance is not called for the Ready.            *)
(***************************************************************************)
C19_SaveFailureStops ==
    gh.stop = "SaveEntries" =>
        /\ pc = "stopped"
        /\ ~gh.saved
        /\ gh.calls = {}
        /\ rd.snap = 0 /\ rd.n = 0 /\ ci = 0
        /\ gh.pre \cap {"apply", "bcastId"} = {}
        /\ gh.cur = NoCur
        /\ appliedIndex = prevIndex
        /\ gh.unadv = 1

\* SaveEntries fails in a later cycle, after entries were applied and while
\* the leader's send of that cycle runs.
C19_Witness ==
    /\ gh.stop = "SaveEntries"
    /\ pc = "stopped"
    /\ appliedIndex > 0
    /\ core.nready = 2

(***************************************************************************)
(* C20: a non-empty snapshot whose index is at or below appliedIndex ends  *)
(* publishSnapshot with an error before any call is made: SaveSnapshot,    *)
(* ApplySnapshot, pool.Restore and fsm.Restore are not called, and         *)
(* appliedIndex, snapIndex and confState are left as they were.            *)
(***************************************************************************)
C20_StaleSnapshotRejected ==
    [][(pc = "pubsnap" /\ pc' # pc /\ rd'.snap # 0 /\ rd'.snap <= appliedIndex) =>
          /\ pc' = "stopped"
          /\ gh'.stop = "stale"
          /\ gh'.calls = {}
          /\ appliedIndex' = appliedIndex
          /\ snapIndex' = snapIndex
          /\ confState' = confState]_vars

\* A snapshot at appliedIndex itself has been rejected.
C20_Witness ==
    /\ pc = "stopped"
    /\ gh.stop = "stale"
    /\ rd.snap = appliedIndex
    /\ rd.snap > 0
    /\ gh.calls = {}

C16_NoLeaderWakesWaiters ==
    [][(pc = "idle" /\ pc' = "save" /\ rd'.soft # NoSoft /\ rd'.soft.lead = None) =>
          \A s \in bus.subs :
             /\ bus'.box[s.owner] = <<"ErrNoLeader">>
             /\ s \notin bus'.subs]_vars

\* A caller blocked in wait has been handed ErrNoLeader by the Ready in hand.
C16_Witness ==
    /\ pc = "save"
    /\ rd.soft # NoSoft
    /\ rd.soft.lead = None
    /\ \E p \in Proposers :
          /\ pr[p].pc = "select"
          /\ bus.box[p] = <<"ErrNoLeader">>
          /\ bus.subs = {}

(***************************************************************************)
(* C12: every Shutdown call runs its teardown in this order and nothing    *)
(* else: wait for the in-flight calls, close both ingress channels and     *)
(* wait for the process goroutines, cancel the engine context, wait for    *)
(* the event loop and the background workers, close the snapshot request   *)
(* channel, stop the protocol core, close the message bus, tear down the   *)
(* pool.  A step begins when the one before has finished, a wait finishes  *)
(* only when what it waits for is over, and a call that returns an error   *)
(* has stopped at the step that failed.                                    *)
(***************************************************************************)
C12_TeardownInOrder ==
    /\ [](\A c \in Stoppers :
            /\ Len(sd[c].log) <= 8
            /\ sd[c].log = SubSeq(<<"propwg.Wait", "closeIngress", "cancel", "wg.Wait",
                                    "closeSnapshotc", "node.Stop", "msgbus.Close",
                                    "pool.TearDown">>, 1, Len(sd[c].log))
            /\ sd[c].pc = "run" => sd[c].i = Len(sd[c].log) + 1
            /\ sd[c].closing => Len(sd[c].log) = 1
            /\ sd[c].ret = "nil" => Len(sd[c].log) = 8
            /\ sd[c].ret = "err" => Len(sd[c].log) \in {6, 7})
    /\ [][\A c \in Stoppers :
            Len(sd'[c].log) > Len(sd[c].log) =>
               /\ Len(sd'[c].log) = Len(sd[c].log) + 1
               /\ Len(sd'[c].log) = 1 => propwg = 0
               /\ Len(sd'[c].log) = 2 =>
                     chans.closed /\ \A k \in Chans : procs[k] = "exited"
               /\ Len(sd'[c].log) = 3 => ctxDone'.eng
               /\ Len(sd'[c].log) = 4 => pc = "stopped" /\ rm = {}
                                           /\ \A w \in Writers : wr[w].pc = "free"]_vars
    /\ [](chans.closed => \E c \in Stoppers : Len(sd[c].log) >= 1)

\* A Shutdown has gone through all eight steps and returned nil before its
\* guard did anything: its own cancel stopped the event loop, and a call that
\* was in flight had returned before.
C12_Witness ==
    \E c \in Stoppers :
        /\ sd[c].ret = "nil"
        /\ Len(sd[c].log) = 8
        /\ sd[c].guard = "armed"
        /\ gh.stop = "ctx"
        /\ \E p \in Proposers : pr[p].pc = "done" /\ pr[p].ret = "ctx"

(***************************************************************************)
(* C14: a Shutdown called after another Shutdown has returned nil returns  *)
(* ErrStopped and runs no teardown step.                                   *)
(***************************************************************************)
C14_SecondShutdownStopped ==
    \A c \in Stoppers :
        (sd[c].late /\ sd[c].pc # "idle") =>
            /\ sd[c].pc = "done"
            /\ sd[c].ret = "ErrStopped"
            /\ sd[c].log = <<>>
            /\ sd[c].guard = "off"

\* The second call has returned after the first one went through its eight
\* steps and returned nil.
C14_Witness ==
    /\ sd[1].ret = "nil"
    /\ Len(sd[1].log) = 8
    /\ sd[2].late
    /\ sd[2].pc = "done"
    /\ sd[2].ret = "ErrStopped"

(***************************************************************************)
(* C15: a Push on a started engine does not block; it returns the          *)
(* buffer-full error and leaves both channels as they are when the channel *)
(* for the message's type (proposec for MsgProp, msgc otherwise) is full,  *)
(* and it puts the message on that channel only and returns nil when the   *)
(* channel has room.                                                       *)
(***************************************************************************)
C15_PushFullOrEnqueued ==
    /\ [](\A c \in Pushers :
            pu[c].pc \in {"add", "select"} => ENABLED (PuAdd(c) \/ PuSelect(c)))
    /\ [][\A c \in Pushers :
            (pu[c].pc \in {"add", "select"} /\ pu'[c].pc # "select" /\ pu'[c] # pu[c]) =>
               LET k == IF pu[c].type = "MsgProp" THEN "proposec" ELSE "msgc" IN
               IF chans.len[k] < MaxQueue
               THEN /\ pu'[c].pc = "done" /\ pu'[c].ret = "nil"
                    /\ chans' = [chans EXCEPT !.len[k] = @ + 1]
               ELSE /\ pu'[c].pc = "done" /\ pu'[c].ret = "full"
                    /\ chans' = chans]_vars

\* C15, amended: the same while the engine context is not done; once it is
\* done Push returns the context's error and leaves both channels as they
\* are, or, in the select, may still take the send when the channel has room.
C15_PushFullOrEnqueuedOrCtx ==
    /\ [](\A c \in Pushers :
            pu[c].pc \in {"add", "select"} => ENABLED (PuAdd(c) \/ PuSelect(c)))
    /\ [][\A c \in Pushers :
            (pu[c].pc \in {"add", "select"} /\ pu'[c].pc # "select" /\ pu'[c] # pu[c]) =>
               LET k == IF pu[c].type = "MsgProp" THEN "proposec" ELSE "msgc"
                   sent == /\ chans.len[k] < MaxQueue
                           /\ pu[c].pc = "select"
                           /\ pu'[c].pc = "done" /\ pu'[c].ret = "nil"
                           /\ chans' = [chans EXCEPT !.len[k] = @ + 1]
                   full == /\ chans.len[k] >= MaxQueue
                           /\ pu'[c].pc = "done" /\ pu'[c].ret = "full"
                           /\ chans' = chans
                   ctx  == /\ pu'[c].pc = "done" /\ pu'[c].ret = "ctx"
                           /\ chans' = chans
               IN IF ctxDone.eng THEN sent \/ ctx ELSE sent \/ full]_vars

\* One Push has filled the proposal channel and returned nil, the next
\* proposal was refused with the buffer-full error, and a message of another
\* type went to the message channel.
C15_Witness ==
    /\ chans.len["proposec"] = MaxQueue
    /\ \E c \in Pushers : pu[c].type = "MsgProp" /\ pu[c].ret = "full"
    /\ \E c \in Pushers : pu[c].type = "MsgProp" /\ pu[c].ret = "nil"
    /\ ~ctxDone.eng

(***************************************************************************)
(* C11: a public operation called while started is unset returns           *)
(* ErrStopped and does not reach the protocol core: LinearizableRead,      *)
(* TransferLeadership, Status, ProposeConfChange, ForgetLeader and         *)
(* CreateSnapshot, and Push, ProposeReplicate and Shutdown, which all      *)
(* return at their first step.                                             *)
(***************************************************************************)
C11_StoppedMeansErrStopped ==
    /\ []((api.op # "none" /\ ~api.started) => (api.ret = "ErrStopped" /\ ~api.core))
    /\ [][~started =>
            /\ \A p \in Proposers :
                  pr'[p] # pr[p] /\ pr[p].pc = "idle" =>
                     pr'[p].pc = "done" /\ pr'[p].ret = "ErrStopped" /\ core' = core
            /\ \A c \in Pushers :
                  pu'[c] # pu[c] /\ pu[c].pc = "idle" =>
                     pu'[c].pc = "done" /\ pu'[c].ret = "ErrStopped" /\ core' = core
                        /\ chans' = chans
            /\ \A c \in Stoppers :
                  sd'[c] # sd[c] /\ sd[c].pc = "idle" =>
                     sd'[c].pc = "done" /\ sd'[c].ret = "ErrStopped" /\ core' = core]_vars

(***************************************************************************)
(* C13: when the context given to Shutdown expires while Shutdown waits    *)
(* for the in-flight calls, the engine context gets cancelled, the calls   *)
(* blocked in the engine return (ErrStopped or their own context's error)  *)
(* and Shutdown returns.                                                   *)
(***************************************************************************)
C13_ExpiredShutdownReturns ==
    /\ \A c \in Stoppers :
          (sd[c].pc = "run" /\ sd[c].i = 1 /\ sd[c].ctx) ~> ctxDone.eng
    /\ \A c \in Stoppers :
          (sd[c].pc = "run" /\ sd[c].i = 1 /\ sd[c].ctx) ~> (sd[c].pc \in {"done", "panic"})
    /\ [](\A p \in Proposers :
            pr[p].pc = "done" => pr[p].ret \in {"ErrStopped", "ctx", "nil", "err", "ErrNoLeader"})


(***************************************************************************)
(* Properties of publishSnapshotFile.                                      *)
(***************************************************************************)
\* C21: when publishSnapshotFile returns without an error for the snapshot
\* of the Ready, appliedIndex and snapIndex both equal the snapshot's index
\* and confState is the snapshot's ConfState; when it returns an error
\* (ApplySnapshot or Restore failed) the three are what they were.
C21_InstallSetsIndices ==
    [][/\ (pc = "psfApplied" /\ pc' = "commit")
            => /\ appliedIndex' = rd.snap
               /\ snapIndex' = rd.snap
               /\ confState' = SnapConf
       /\ (pc = "psfRestore" /\ pc' = "stopped")
            => UNCHANGED <<appliedIndex, snapIndex, confState>>]_vars


(***************************************************************************)
(* Properties of snapshot creation.                                        *)
(***************************************************************************)
\* C27: maybeCreateSnapshot goes past its distance test only when
\* appliedIndex is more than SnapInterval above snapIndex as integers (so
\* never when appliedIndex <= snapIndex: the unsigned difference does not
\* wrap), and calls createSnapshot only from there and only when the
\* snapshoting flag reads false.
C27_GateWithoutWrap ==
    [][/\ (pc = "maybeSnap" /\ pc' = "maybeSnap2")
            => appliedIndex > snapIndex + core.env.interval
       /\ (pc = "maybeSnap" /\ appliedIndex <= snapIndex)
            => pc' # "maybeSnap2"
       /\ (pc # "creating" /\ pc' = "creating")
            => pc = "maybeSnap2" /\ ~snapshoting]_vars

\* maybeCreateSnapshot has just called createSnapshot, more than
\* SnapInterval entries after the last snapshot and with the flag clear.
C27_Witness ==
    /\ pc = "creating"
    /\ fr["ev"].cpc = "readA"
    /\ appliedIndex > snapIndex + core.env.interval
    /\ ~snapshoting


\* C28: a snapshoting flag that is set is cleared again, and so by the call
\* that set it: a createSnapshot past line 994 leaves that point, and a
\* writer that has started reaches the end of fn, where the deferred UnSet
\* runs, whether Write, SaveSnapshot or Compact failed or not.
C28_FlagEventuallyCleared ==
    /\ snapshoting ~> ~snapshoting
    /\ \A t \in Threads : (fr[t].cpc = "run") ~> (fr[t].cpc = "ret")
    /\ \A w \in Writers :
          (wr[w].pc \in {"persist", "compact", "unset"}) ~> (wr[w].pc \in {"rewind", "done"})

\* A writer whose Write, SaveSnapshot or Compact failed has cleared the
\* flag and has its rewind left to do.
C28_Witness ==
    \E w \in Writers :
       /\ wr[w].pc = "rewind"
       /\ wr[w].err
       /\ ~snapshoting


\* C29: the writer of a creation started at applied index a with previous
\* snapshot index p sets snapIndex to a in the step in which Write and
\* SaveSnapshot have both succeeded and leaves it alone when one of them
\* fails; a writer whose Write, SaveSnapshot or Compact failed ends by
\* setting snapIndex to p, and only such a writer does.
C29_SetAfterSaveElseRewind ==
    [][\A w \in Writers :
          /\ (wr[w].pc = "persist" /\ wr'[w].pc = "compact")
                => snapIndex' = wr[w].a /\ ~wr'[w].err
          /\ (wr[w].pc = "persist" /\ wr'[w].pc = "unset")
                => snapIndex' = snapIndex /\ wr'[w].err
          /\ (wr[w].pc \in {"compact", "unset"} /\ wr'[w].pc # wr[w].pc)
                => snapIndex' = snapIndex
          /\ (wr[w].pc = "unset" /\ wr[w].err) => wr'[w].pc \in {"unset", "rewind"}
          /\ (wr[w].pc = "rewind" /\ wr'[w].pc # "rewind")
                => snapIndex' = wr[w].p /\ wr[w].err]_vars

\* Compact failed after the writer had set snapIndex to a; the flag is
\* cleared and the writer is about to set snapIndex back to p.
C29_Witness ==
    \E w \in Writers :
       /\ wr[w].pc = "rewind"
       /\ wr[w].a # wr[w].p
       /\ snapIndex = wr[w].a
       /\ ~snapshoting


C22_NilMeansReadIndexApplied ==
    \A p \in Proposers :
       (pr[p].read /\ pr[p].pc = "done" /\ pr[p].ret = "nil")
          => appliedIndex >= pr[p].index

\* A LinearizableRead was answered with an index ahead of appliedIndex,
\* waited for it and returned nil.
C22_Witness ==
    \E p \in Proposers :
       /\ pr[p].read
       /\ pr[p].pc = "done"
       /\ pr[p].ret = "nil"
       /\ pr[p].waited
       /\ pr[p].index > 0
       /\ appliedIndex >= pr[p].index

\* C23: a LinearizableRead that holds the read index i returns nil once
\* appliedIndex has reached i, whatever the interleaving of the caller and
\* the event loop, with no context ever cancelled.
C23_ReadReturnsOnceApplied ==
    \A p \in Proposers :
       (pr[p].read /\ pr[p].pc \in {"cmp", "wsub", "wselect"} /\ appliedIndex >= pr[p].index)
          ~> (pr[p].pc = "done" /\ pr[p].ret = "nil")


(***************************************************************************)
(* Properties of the public CreateSnapshot.                                *)
(***************************************************************************)
\* C24: a CreateSnapshot that read different applied and snapshot indices
\* and returned the snapshot metadata had createSnapshot called for its
\* request before it returned.
C24_RequestCreatesSnapshot ==
    (api.op = "CreateSnapshot" /\ api.pc = "done" /\ api.ret = "Snapshot" /\ api.a # api.p)
       => api.created


(***************************************************************************)
(* Properties of the removal of members.                                   *)
(***************************************************************************)
\* C25: while the context given to Start is not done, the goroutine of a
\* published RemoveNode change ends, with the member's removal from the
\* pool, only when two tick intervals have passed since the change was
\* published, and not when the engine context was cancelled before they
\* had passed.
C25_RemovalDelayedAndCancellable ==
    [][\A r \in rm :
          (~ctxDone.start /\ \A q \in rm' : q.id # r.id)
             => r.left = 0 /\ ~r.off]_vars

(***************************************************************************)
(* The disk storage: the WAL and its metadata, and Boot after a restart.   *)
(***************************************************************************)
SetMax(S) == CHOOSE x \in S : \A y \in S : y <= x

SetMin(S) == CHOOSE x \in S : \A y \in S : x <= y

\* wal.LastIndex and wal.firstIndex: the first index is never zero.
WalLastIndex(d) == IF d.ents = {} THEN 0 ELSE SetMax(d.ents)

WalFirstIndex(d) == IF d.ents = {} THEN 1 ELSE SetMin(d.ents)

\* wal.allEntries: the entries of the range [lo, hi).
allEntries(d, lo, hi) == { i \in d.ents : lo <= i /\ i < hi }

lastIndex(d) == IF WalLastIndex(d) < d.si THEN d.si ELSE WalLastIndex(d)

firstIndex(d) == IF d.si > 0 THEN d.si + 1 ELSE WalFirstIndex(d)

\* DiskStorage.Entries.
DiskEntries(d, lo, hi) ==
    IF lo < WalFirstIndex(d) THEN [es |-> {}, err |-> "ErrCompacted"]
    ELSE IF hi > WalLastIndex(d) + 1 THEN [es |-> {}, err |-> "ErrUnavailable"]
    ELSE [es |-> allEntries(d, lo, hi), err |-> "nil"]

\* DiskStorage.Boot: the snapshot result is never assigned.
Boot(d) ==
    LET r == DiskEntries(d, firstIndex(d), lastIndex(d))
    IN IF r.err # "nil"
          THEN [NoBoot EXCEPT !.done = TRUE, !.err = r.err]
          ELSE [done |-> TRUE, hs |-> d.hs, ents |-> r.es, snap |-> None,
                err |-> "nil"]

\* SaveEntries: the Ready's new entries, then its hard state.
DkSaveEntries ==
    /\ \E es \in {{}, {WalLastIndex(disk) + 1}} :
       \E h \in [term : 0 .. MaxTerm, commit : 0 .. MaxIndex] :
          /\ disk.lock = "free"
          /\ es \subseteq 1 .. MaxIndex
          /\ disk.hs.term <= h.term
          /\ disk.hs.commit <= h.commit
          /\ h.commit <= WalLastIndex([disk EXCEPT !.ents = @ \cup es])
          /\ disk' = [disk EXCEPT !.ents = @ \cup es, !.hs = h]
    /\ UNCHANGED <<engVars, core, pc, rd, prevIndex, ci, fr, wr, rm, bus, pr, gh>>
    /\ UNCHANGED <<pm, statec, started, ctxDone, propwg, sd, chans, procs, pu, api>>

\* CreateSnapshot at a committed index: the snapshot goes to the metadata
\* and the WAL drops what lies below it.
DkCreateSnapshot(i) ==
    /\ disk.lock = "free"
    /\ i >= firstIndex(disk)
    /\ i \in disk.ents
    /\ i <= disk.hs.commit
    /\ disk' = [disk EXCEPT !.si = i, !.ents = { e \in @ : e >= i }]
    /\ UNCHANGED <<engVars, core, pc, rd, prevIndex, ci, fr, wr, rm, bus, pr, gh>>
    /\ UNCHANGED <<pm, statec, started, ctxDone, propwg, sd, chans, procs, pu, api>>

\* A snapshot received from the leader: SaveSnapshot stores it; ApplySnapshot
\* takes the mutex and, in addEntries, calls FirstIndex, which waits for the
\* mutex its caller holds: the entry at the snapshot's index is never
\* written and the mutex stays taken until the process ends.
DkInstallSnapshot(i) ==
    /\ disk.lock = "free"
    /\ i > disk.hs.commit
    /\ i >= firstIndex(disk)
    /\ disk' = [disk EXCEPT !.si = i, !.lock = "ev",
                            !.th["ev"] = [op |-> "ApplySnapshot", pc |-> "relock"]]
    /\ UNCHANGED <<engVars, core, pc, rd, prevIndex, ci, fr, wr, rm, bus, pr, gh>>
    /\ UNCHANGED <<pm, statec, started, ctxDone, propwg, sd, chans, procs, pu, api>>

\* disk.Boot over a WAL directory that exists, in a new process: Init makes
\* a storage whose mutex is free.
DkBoot ==
    /\ ~disk.out.done
    /\ disk' = [disk EXCEPT !.out = Boot(disk), !.lock = "free",
                            !.th = [t \in StThreads |-> NoOp]]
    /\ UNCHANGED <<engVars, core, pc, rd, prevIndex, ci, fr, wr, rm, bus, pr, gh>>
    /\ UNCHANGED <<pm, statec, started, ctxDone, propwg, sd, chans, procs, pu, api>>

\* The storage of a node over its life: saves, snapshots and one restart.
InitBoot == InitWith(ReadEnv)

DkSnapshots ==
    \E i \in 1 .. MaxIndex : DkCreateSnapshot(i) \/ DkInstallSnapshot(i)

NextBoot == DkSaveEntries \/ DkSnapshots \/ DkBoot

SpecBoot == InitBoot /\ [][NextBoot]_vars

\* ---- The storage mutex ----

\* The storage operations each goroutine calls: the event loop saves the
\* entries of a Ready and applies a received snapshot, the snapshot writer
\* compacts the log, the protocol core reads entries and terms.
OpsOf(t) ==
    CASE t = "ev" -> {"SaveEntries", "ApplySnapshot"}
      [] t = "wr" -> {"Compact"}
      [] OTHER -> {"Entries", "Term"}

\* The operations that begin with w.lock.Lock(): Compact does not.
Locks(op) == op # "Compact"

\* What an operation's body leaves in the storage: SaveEntries adds the
\* entries and stores the hard state; truncateEntriesUntil deletes the data
\* of entries and keeps their indices; Entries and Term read.
Body(d, op) ==
    IF op = "SaveEntries"
    THEN { [d EXCEPT !.ents = @ \cup es, !.hs = h] :
             <<es, h>> \in
               { x \in {{}, {WalLastIndex(d) + 1} \cap (1 .. MaxIndex)}
                        \X [term : 0 .. MaxTerm, commit : 0 .. MaxIndex] :
                   /\ d.hs.term <= x[2].term
                   /\ d.hs.commit <= x[2].commit
                   /\ x[2].commit <= WalLastIndex([d EXCEPT !.ents = @ \cup x[1]]) } }
    ELSE {d}

\* A goroutine enters a storage operation.
MxCall(t, op) ==
    /\ disk.th[t] = NoOp
    /\ op \in OpsOf(t)
    /\ disk' = [disk EXCEPT !.th[t] =
                   [op |-> op, pc |-> IF Locks(op) THEN "lock" ELSE "wal"]]
    /\ UNCHANGED <<engVars, core, pc, rd, prevIndex, ci, fr, wr, rm, bus, pr, gh>>
    /\ UNCHANGED <<pm, statec, started, ctxDone, propwg, sd, chans, procs, pu, api>>

\* w.lock.Lock() returns once nobody holds the mutex: at the head of an
\* operation, and in the FirstIndex that addEntries calls. sync.Mutex does
\* not know its holder, so the holder itself waits as anybody else does.
MxLock(t) ==
    /\ disk.th[t].pc \in {"lock", "relock"}
    /\ disk.lock = "free"
    /\ disk' = [disk EXCEPT !.lock = t,
                            !.th[t].pc = IF @ = "lock" THEN "wal" ELSE "add"]
    /\ UNCHANGED <<engVars, core, pc, rd, prevIndex, ci, fr, wr, rm, bus, pr, gh>>
    /\ UNCHANGED <<pm, statec, started, ctxDone, propwg, sd, chans, procs, pu, api>>

\* The body of an operation over the WAL and the metadata. ApplySnapshot
\* truncates and goes on to addEntries, whose first statement is
\* w.FirstIndex(); every other operation returns, and its deferred Unlock
\* frees the mutex it took.
MxBody(t) ==
    /\ disk.th[t].pc = "wal"
    /\ \E d \in Body(disk, disk.th[t].op) :
          disk' =
            IF disk.th[t].op = "ApplySnapshot"
            THEN [d EXCEPT !.th[t].pc = "relock"]
            ELSE [d EXCEPT !.th[t] = NoOp,
                           !.lock = IF Locks(disk.th[t].op) THEN "free" ELSE @]
    /\ UNCHANGED <<engVars, core, pc, rd, prevIndex, ci, fr, wr, rm, bus, pr, gh>>
    /\ UNCHANGED <<pm, statec, started, ctxDone, propwg, sd, chans, procs, pu, api>>

\* The storage under its three callers.
InitMutex == InitWith(ReadEnv)

Mutexes ==
    \E t \in StThreads :
       \/ \E op \in {"SaveEntries", "ApplySnapshot", "Compact", "Entries", "Term"} :
             MxCall(t, op)
       \/ MxLock(t)
       \/ MxBody(t)

NextMutex == Mutexes

SpecMutex == InitMutex /\ [][NextMutex]_vars

\* C26: Boot on a storage that holds state returns the stored hard state,
\* every stored entry from the first index to the last index inclusive, and
\* the newest stored snapshot.
C26_BootReturnsPersistedState ==
    [][(~disk.out.done /\ disk'.out.done /\ (disk.ents # {} \/ disk.si > 0))
          => /\ disk'.out.err = "nil"
             /\ disk'.out.hs = disk.hs
             /\ disk'.out.ents = { i \in disk.ents :
                                      firstIndex(disk) <= i /\ i <= lastIndex(disk) }
             /\ disk'.out.snap = disk.si]_vars

(***************************************************************************)
(* The state-change channel: the goroutine do starts for a soft state, and *)
(* the program that consumes the channel.                                  *)
(***************************************************************************)
\* The capacities of the configured channel: unbuffered up to StateCap.
StateCap == 1

\* The goroutine of do, lines 462-466: one select.  The receive is ready
\* when a role is queued, the send when the channel has room or its consumer
\* waits; one ready case is taken, the default when none is.
StGo(g) ==
    /\ statec.go[g] = "run"
    /\ \/ /\ Len(statec.q) > 0
          /\ statec' = [statec EXCEPT !.q = Tail(@), !.go[g] = "received"]
       \/ /\ statec.rcv
          /\ statec' = [statec EXCEPT !.rcv = FALSE, !.go[g] = "sent"]
       \/ /\ ~statec.rcv
          /\ Len(statec.q) < statec.cap
          /\ statec' = [statec EXCEPT !.q = Append(@, statec.role[g]), !.go[g] = "sent"]
       \/ /\ ~statec.rcv
          /\ Len(statec.q) = 0
          /\ statec.cap = 0
          /\ statec' = [statec EXCEPT !.go[g] = "default"]
    /\ UNCHANGED <<engVars, core, pc, rd, prevIndex, ci, fr, wr, rm, bus, pr, gh>>
    /\ UNCHANGED <<pm, disk, started, ctxDone, propwg, sd, chans, procs, pu, api>>

\* The program receives from the channel: it takes the oldest queued role,
\* or blocks until a role is sent.
StConsume ==
    /\ statec.on
    /\ ~statec.rcv
    /\ statec' = IF statec.q # <<>> THEN [statec EXCEPT !.q = Tail(@)]
                 ELSE [statec EXCEPT !.rcv = TRUE]
    /\ UNCHANGED <<engVars, core, pc, rd, prevIndex, ci, fr, wr, rm, bus, pr, gh>>
    /\ UNCHANGED <<pm, disk, started, ctxDone, propwg, sd, chans, procs, pu, api>>

\* A node that moves between every role, with a state-change channel of
\* capacity c configured; the core emits no message and commits plain
\* entries.
StateEnv(c) ==
    [ProposeEnv EXCEPT !.softs = SoftStates] @@ [statec |-> c]

InitState == \E c \in 0 .. StateCap : InitWith(StateEnv(c))

States == StConsume \/ \E g \in 1 .. MaxReady : StGo(g)

NextState == Cycle \/ Returns \/ DoWaitSend \/ States

SpecState == InitState /\ [][NextState]_vars

\* The scheduler runs every started goroutine.
FairState == \A g \in 1 .. MaxReady : WF_vars(StGo(g))

SpecStateFair == SpecState /\ FairState

\* C33: the role of a Ready's soft state is eventually placed on the
\* configured state-change channel, here a buffered one: the goroutine
\* started for it ends by sending the role.
C33_RoleEventuallyPlaced ==
    \A g \in 1 .. MaxReady :
       (statec.cap > 0 /\ statec.go[g] = "run") ~> (statec.go[g] = "sent")

(***************************************************************************)
(* The promotion of staging members.                                       *)
(***************************************************************************)
\* The largest Match of the node status.
MaxMatch == 10

\* A test that takes every staging member for caught up.
CaughtUpAlways(staging, ldr) == TRUE

\* promotions, line 890: float64(staging) < float64(leader)*0.9 skips the
\* member.  Below 2^53 the conversions are exact and the product rounds to
\* 9*leader/10 where that is a whole number, so the test is the comparison
\* of 10*staging with 9*leader.
CaughtUp(staging, ldr) == ~(10 * staging < 9 * ldr)

\* promotions, lines 872-878: the voters of the pool and the active ones.
Voters(q) == { m \in Members : q.type[m] = "Voter" }

Reachables(q) == { m \in Members : q.active[m] /\ q.type[m] = "Voter" }

\* promotions, lines 880-895: the staging members that have caught up.
Candidates(q) ==
    { m \in Members : q.type[m] = "Staging" /\ CaughtUp(q.match[m], q.match[Self]) }

\* promotions, lines 859-910: nothing without a Progress map (862-864) or
\* with fewer active voters than voters/2+1 (898-900); else an AddNode
\* proposal for every candidate.
Promoted(q) ==
    IF ~q.leader THEN {}
    ELSE IF Cardinality(Reachables(q)) < (Cardinality(Voters(q)) \div 2) + 1 THEN {}
    ELSE Candidates(q)

Promotions ==
    /\ ~pm.done
    /\ pm' = [pm EXCEPT !.done = TRUE, !.out = Promoted(pm)]
    /\ UNCHANGED <<engVars, core, pc, rd, prevIndex, ci, fr, wr, rm, bus, pr, gh>>
    /\ UNCHANGED <<statec, disk, started, ctxDone, propwg, sd, chans, procs, pu, api>>

\* The matches of the status: nothing replicated, or within two of MaxMatch.
Matches == {0} \cup (MaxMatch - 2 .. MaxMatch)

\* Every pool and status promotions can meet: the local member is an active
\* voter.
Pools ==
    { q \in [leader : BOOLEAN, match : [Members -> Matches],
             type : [Members -> MemberTypes], active : [Members -> BOOLEAN]] :
         /\ q.type[Self] = "Voter"
         /\ q.active[Self]
         /\ q.match[Self] \in {0, MaxMatch} }

PromoteEnv(q) == ReadEnv @@ [pool |-> q]

InitPromote == \E q \in Pools : InitWith(PromoteEnv(q))

NextPromote == Promotions

SpecPromote == InitPromote /\ [][NextPromote]_vars

\* C31: promotions proposes AddNode for a member only if the node is leader,
\* the member is a staging member whose Match is at least 90% of the
\* leader's, and the active voters are at least voters/2+1; without that
\* quorum it proposes nothing.
C31_PromotionOnlyWhenSafe ==
    pm.done =>
       /\ \A m \in pm.out :
             /\ pm.leader
             /\ pm.type[m] = "Staging"
             /\ 10 * pm.match[m] >= 9 * pm.match[Self]
             /\ 2 * Cardinality({ v \in Members : pm.type[v] = "Voter" /\ pm.active[v] })
                   > Cardinality({ v \in Members : pm.type[v] = "Voter" })
       /\ (2 * Cardinality({ v \in Members : pm.type[v] = "Voter" /\ pm.active[v] })
              <= Cardinality({ v \in Members : pm.type[v] = "Voter" })
             => pm.out = {})

\* A leader with its quorum promotes one staging member and leaves the
\* other, which lags, alone.
C31_Witness ==
    /\ pm.done
    /\ pm.out = {Peer}
    /\ pm.type[Other] = "Staging"
    /\ pm.match[Self] = MaxMatch
    /\ pm.match[Peer] = MaxMatch - 1
    /\ pm.match[Other] = MaxMatch - 2

(***************************************************************************)
(* Push next to Shutdown: the callers of both, the process goroutines and  *)
(* the teardown up to eng.cancel, the context given to Shutdown expiring   *)
(* or not.                                                                 *)
(***************************************************************************)
Guards == \E c \in Stoppers : SdExpire(c) \/ SdGuard(c)

InitRace == InitWith(ApplyEnv)

NextRace == Cancels \/ Guards \/ Pushes \/ Steps \/ Exits

SpecRace == InitRace /\ [][NextRace]_vars

(***************************************************************************)
(* The drain: one Shutdown call, whose context may expire, next to the     *)
(* Push callers and the process goroutines; the program may cancel the     *)
(* context given to Start.                                                 *)
(***************************************************************************)
Drains ==
    \/ SdCall(1) \/ SdUnset(1) \/ SdExpire(1) \/ SdGuard(1)
    \/ SdPropWait(1) \/ SdCloseIngress(1) \/ SdProcWait(1) \/ SdCancel(1)

InitDrain == InitWith(ApplyEnv)

NextDrain == Drains \/ Pushes \/ Steps \/ Exits \/ StartCtxDone

SpecDrain == InitDrain /\ [][NextDrain]_vars

\* C34: while the context given to Start is not cancelled, an ingress
\* processor that has exited leaves no pushed message behind, and the
\* engine context is cancelled before both processors have drained their
\* channels and exited only when the context given to a Shutdown call has
\* expired.
C34_DrainedBeforeCancel ==
    [][/\ \A k \in Chans :
             (procs'[k] = "exited" /\ ~ctxDone'.start) => chans'.len[k] = 0
       /\ (~ctxDone.eng /\ ctxDone'.eng /\ ~ctxDone'.start /\ \A c \in Stoppers : ~sd[c].ctx)
             => \A k \in Chans : procs[k] = "exited" /\ chans.len[k] = 0]_vars

\* A message was pushed and stepped, both processors have exited and only
\* then Shutdown, its context alive, cancelled the engine context.
C34_Witness ==
    /\ \E c \in Pushers : pu[c].ret = "nil"
    /\ \A k \in Chans : procs[k] = "exited"
    /\ ctxDone.eng
    /\ ~ctxDone.start
    /\ \A c \in Stoppers : ~sd[c].ctx

\* C34 as stated: whenever the engine context is cancelled while the context
\* given to Start is alive, both ingress processors have exited.
C34_NoCancelBeforeDrain ==
    [][(~ctxDone.eng /\ ctxDone'.eng /\ ~ctxDone'.start)
          => \A k \in Chans : procs[k] = "exited"]_vars

\* C35: Push never sends on an ingress channel Shutdown has closed: no Push
\* call ends in the panic of such a send.
C35_PushNeverSendsOnClosed == \A c \in Pushers : pu[c].pc # "panic"

\* C36: of the Shutdown calls made on a started engine exactly one performs
\* the teardown: no two calls are past the test of started, and no call
\* ends in the panic of closing a channel a second time.
C36_OneShutdownTearsDown ==
    /\ Cardinality({ c \in Stoppers : sd[c].pc \in {"unset", "run", "panic"} }) <= 1
    /\ \A c \in Stoppers : sd[c].pc # "panic"

\* The scheduler runs the event loop and the caller of CreateSnapshot: a
\* Ready cycle in progress goes on, a request on snapshotc is taken by a
\* loop that selects, and the caller takes its next step.
FairCreate ==
    /\ WF_vars(DoSave \/ DoPubSnap \/ DoCommit \/ DoSetApplied \/ DoBcast
                 \/ DoMaybeSnap \/ DoAdvance \/ Returns)
    /\ WF_vars(EvSnapshotc)
    /\ WF_vars(SnReadS)
    /\ WF_vars(SnReturn)

SpecCreateFair == SpecCreate /\ FairCreate

\* C37: a CreateSnapshot call that passed the test of started and sends its
\* request on snapshotc always returns.
C37_CreateSnapshotReturns == (api.pc = "send") ~> (api.pc = "done")

\* C39: ApplySnapshot never waits for the storage mutex while it holds that
\* mutex itself, so it always returns and the event loop is not blocked
\* forever in publishSnapshotFile.
C39_ApplySnapshotNeverRelocks ==
    \A t \in StThreads : disk.th[t].pc = "relock" => disk.lock # t

\* C40: the operations over the WAL exclude one another: Compact of the
\* snapshot writer is never in the WAL while SaveEntries, Entries or Term of
\* the event loop or the protocol core is.
C40_CompactUnderMutex ==
    \A t \in StThreads :
       (disk.th[t].op = "Compact" /\ disk.th[t].pc = "wal") =>
          \A u \in StThreads \ {t} :
             ~(disk.th[u].op \in {"SaveEntries", "Entries", "Term"}
                 /\ disk.th[u].pc = "wal")

\* C38: snapIndex never decreases: a background writer that finishes or
\* fails after a snapshot install has raised snapIndex above the index the
\* writer captured does not set snapIndex to a lower value.
C38_SnapIndexNeverDecreases ==
    [][\A w \in Writers :
          (wr'[w] # wr[w] /\ snapIndex > wr[w].a) => snapIndex' >= snapIndex]_vars

\* C32: when the publication phase of a Ready cycle is over, with
\* appliedIndex moved from prevIndex to its current value, Broadcast(i, nil)
\* has been called for every index above prevIndex up to appliedIndex and
\* for no other index.
C32_NilForEachAppliedIndex ==
    pc \in {"maybeSnap", "maybeSnap2", "creating", "sending", "waitSend", "advance"}
       => gh.nils = { i \in 0 .. Wrap - 1 : prevIndex < i /\ i <= appliedIndex }

\* A cycle that installed a snapshot and applied an entry after it.
C32_Witness ==
    /\ pc = "maybeSnap"
    /\ prevIndex = 0
    /\ snapIndex = 1
    /\ appliedIndex = 2
    /\ gh.nils = {1, 2}

=========================================================================
